---------------------------- MODULE Spec2Model ----------------------------
(***************************************************************************)
(* LedgerMind: the orchestration pipeline (planner, tool executor, answer  *)
(* composer, grounding validator) of src/src/application and src/src/llm.  *)
(*                                                                         *)
(* Representation of the Python values:                                    *)
(*  - a str is a sequence of atoms.  An atom is a one-character string     *)
(*    ("4", "$", ",", ".", "/", " ") or a run of letters written as one    *)
(*    word ("result", "weeks"); str.split, str.strip and the validator's   *)
(*    regular expression only look at the class of a character and at      *)
(*    adjacency, for which a run of letters behaves as one letter.         *)
(*  - a dict is a sequence of [k, v] entries with distinct keys, in        *)
(*    insertion order.                                                     *)
(*  - a float with two decimals is the integer number of hundredths.       *)
(*  - None is a record of the same shape with has = FALSE.                 *)
(***************************************************************************)
EXTENDS Integers, Sequences, FiniteSets, TLC

(***************************************************************************)
(* Bounds of the model.                                                    *)
(***************************************************************************)
\* most calls in a plan returned by the language model
MaxCalls == 2
\* most supporting numbers in an answer handed to validate
MaxNumbers == 2
\* most tool responses in an evidence list handed to validate
MaxEvidence == 2
\* most register and clear operations on a registry
MaxOps == 3
\* most calls of LLMClient.complete
MaxCompletions == 2

(***************************************************************************)
(* Strings.                                                                *)
(***************************************************************************)
Digits == <<"0", "1", "2", "3", "4", "5", "6", "7", "8", "9">>

IsDigit(c) == \E i \in 1..10 : Digits[i] = c

\* \w of the regular expression: letters, digits, underscore
IsWord(c) == c \notin {"$", ",", ".", "/", " ", ":", ";", "-", "'", "?", "(", ")"}

IsSpace(c) == c = " "

\* str(n) of a non-negative int
RECURSIVE IntStr(_)
IntStr(n) == IF n < 10 THEN <<Digits[n + 1]>>
             ELSE IntStr(n \div 10) \o <<Digits[(n % 10) + 1]>>

\* what date.today() returns: the calendar date of the run, as a
\* datetime.date [year, month, day]
VARIABLE today

\* the date of the runs whose date does not matter
RunDate == [year |-> 2026, month |-> 11, day |-> 6]

\* date.isoformat(): "%04d-%02d-%02d"
isoformat(d) ==
    LET zfill(n, w) == [i \in 1..(w - Len(IntStr(n))) |-> "0"] \o IntStr(n)
    IN zfill(d.year, 4) \o <<"-">> \o zfill(d.month, 2) \o <<"-">> \o zfill(d.day, 2)

\* str.strip(): leading and trailing whitespace removed
RECURSIVE LStrip(_)
LStrip(s) == IF s # <<>> /\ IsSpace(Head(s)) THEN LStrip(Tail(s)) ELSE s

RECURSIVE RStrip(_)
RStrip(s) == IF s # <<>> /\ IsSpace(s[Len(s)])
             THEN RStrip(SubSeq(s, 1, Len(s) - 1)) ELSE s

Strip(s) == RStrip(LStrip(s))

\* str.split("."): the parts between the dots, empty parts kept
RECURSIVE SplitDots(_, _)
SplitDots(s, cur) ==
    IF s = <<>> THEN <<cur>>
    ELSE IF Head(s) = "." THEN <<cur>> \o SplitDots(Tail(s), <<>>)
    ELSE SplitDots(Tail(s), Append(cur, Head(s)))

Split(s) == SplitDots(s, <<>>)

Range(s) == {s[i] : i \in 1..Len(s)}

\* all sequences over S of length 0..n
SeqsUpTo(S, n) == UNION {[1..k -> S] : k \in 0..n}

(***************************************************************************)
(* Dicts: sequences of [k, v] entries in insertion order.                  *)
(***************************************************************************)
HasKey(d, k) == \E i \in 1..Len(d) : d[i].k = k

Lookup(d, k) == d[CHOOSE i \in 1..Len(d) : d[i].k = k].v

Keys(d) == {d[i].k : i \in 1..Len(d)}

\* d[k] = v: an existing key keeps its place, a new key goes last
Store(d, k, v) ==
    IF HasKey(d, k)
    THEN [i \in 1..Len(d) |-> IF d[i].k = k THEN [k |-> k, v |-> v] ELSE d[i]]
    ELSE Append(d, [k |-> k, v |-> v])

\* values held by a tool result or an evidence bundle (Any): .t is the
\* type, .n the number (in hundredths), .d the entries of a dict, .s the
\* text of a str, .l the items of a list
NumV(c) == [t |-> "num", n |-> c, d |-> <<>>, s |-> <<>>, l |-> <<>>]
\* a str whose text does not matter
StrV == [t |-> "str", n |-> 0, d |-> <<>>, s |-> <<"text">>, l |-> <<>>]
TextV(s) == [t |-> "str", n |-> 0, d |-> <<>>, s |-> s, l |-> <<>>]
BoolV == [t |-> "bool", n |-> 100, d |-> <<>>, s |-> <<>>, l |-> <<>>]
DictV(d) == [t |-> "dict", n |-> 0, d |-> d, s |-> <<>>, l |-> <<>>]
ListV(l) == [t |-> "list", n |-> 0, d |-> <<>>, s |-> <<>>, l |-> l]
NoneV == [t |-> "none", n |-> 0, d |-> <<>>, s |-> <<>>, l |-> <<>>]

\* d.get(k)
Get(d, k) == IF HasKey(d, k) THEN Lookup(d, k) ELSE NoneV

\* bool(v)
Truthy(v) ==
    CASE v.t = "none" -> FALSE
      [] v.t \in {"num", "bool"} -> v.n # 0
      [] v.t = "bigint" -> TRUE
      [] v.t = "str" -> v.s # <<>>
      [] v.t = "dict" -> v.d # <<>>
      [] v.t = "list" -> v.l # <<>>


(***************************************************************************)
(* The inputs of one run.                                                  *)
(***************************************************************************)
PREFERRED == "ledger.category_summary"

\* names under which a tool can be registered
ToolNames == {PREFERRED, "detect.anomalies"}

\* names a language model can put in a plan: the registered ones and one
\* that no registry holds
PlanToolNames == ToolNames \cup {"detect.subscriptions"}

\* the tool object each name is registered with at start-up (@register_tool)
StartupTool(name) ==
    IF name = PREFERRED THEN "CategorySummaryToolLegacy()" ELSE "DetectAnomaliesTool()"

\* ToolRegistry._tools after registration at start-up: a dict from name to
\* tool object, so every name occurs once
Registries == {[i \in 1..Len(r) |-> [k |-> r[i], v |-> StartupTool(r[i])]]
                 : r \in {q \in SeqsUpTo(ToolNames, Cardinality(ToolNames)) :
                            \A i, j \in 1..Len(q) : i # j => q[i] # q[j]}}

\* UserRequest.message (min_length = 1)
Messages == {<<"How", " ", "am", " ", "I", " ", "spending", "?">>,
             <<"Can", " ", "I", " ", "save", " ", "$", "5", "0", "0", "?">>}

UserRequests == {[request_id |-> "req_001", user_id |-> "u_123", message |-> m,
                  context |-> [timezone |-> "UTC", policy_profile |-> "default_v1"]]
                 : m \in Messages}

\* results a tool can return (ToolResponse.result)
Payloads ==
    LET \* an int beyond the range of float (such as 10 ** 400)
        BigIntV == [t |-> "bigint", n |-> 0, d |-> <<>>, s |-> <<>>, l |-> <<>>]
    IN
    {
    <<>>,
    <<[k |-> <<"groceries">>, v |-> NumV(41255)], [k |-> <<"rent">>, v |-> NumV(180000)]>>,
    <<[k |-> <<"name">>, v |-> StrV],
      [k |-> <<"by", ".", "month">>, v |-> NumV(48745)],
      [k |-> <<"rows">>, v |-> DictV(<<[k |-> <<"count">>, v |-> NumV(1200)]>>)]>>,
    <<[k |-> <<"total">>, v |-> BigIntV]>> }

(***************************************************************************)
(* Tool registry (src/src/tools/registry.py).                              *)
(***************************************************************************)
\* A tool is [obj, name]: the object and its name attribute.  _tools is a
\* dict from name to object.
\* (variant: a name keeps the tool it was first registered with)
register_first_wins(reg, tool) ==
    IF HasKey(reg, tool.name) THEN reg ELSE Store(reg, tool.name, tool.obj)

\* register(tool): self._tools[tool.name] = tool
register(reg, tool) == Store(reg, tool.name, tool.obj)

\* get_tool(name): [ok |-> TRUE, tool] or the KeyError raised
get_tool(reg, name) ==
    IF ~HasKey(reg, name)
    THEN [ok |-> FALSE, tool |-> "",
          exc |-> [cls |-> <<"KeyError">>,
                   text |-> <<"'", "Tool not registered: ", name, "'">>]]
    ELSE [ok |-> TRUE, tool |-> Lookup(reg, name), exc |-> [cls |-> <<>>, text |-> <<>>]]

\* get(name): return self.get_tool(name)
get(reg, name) == get_tool(reg, name)

\* list_specs(): the name of the spec of each registered tool, in
\* registration order; every spec() passes name=self.name
list_specs(reg) == [i \in 1..Len(reg) |-> reg[i].k]

\* clear(): self._tools.clear()
clear(reg) == <<>>

(***************************************************************************)
(* Planner (src/src/llm/planner.py, src/src/application/planner.py).       *)
(***************************************************************************)
\* A completion of the language model, by what the planner makes of it:
\*   "empty"     the empty string (also what LLMClient returns on failure)
\*   "blank"     whitespace only
\*   "notjson"   text that is not JSON
\*   "badschema" JSON that LedgerMindPlan rejects
\*   "plan"      JSON that LedgerMindPlan accepts, parsed as .plan
NoPlan == [schema_version |-> "", objective |-> <<>>, assumptions |-> "",
           calls |-> <<>>, output |-> ""]

LlmPlans ==
    LET LlmCall(i, name) == [id |-> <<"s">> \o IntStr(i), tool |-> name,
                             args |-> [date_range |-> [start |-> <<"l", "l", "m">>, end |-> <<"l", "l", "m">>],
                                      exclude_transfers |-> FALSE], purpose |-> "llm_purpose"]
    IN
    {[schema_version |-> "ledgermind.plan.v1",
              objective |-> <<"Review", " ", "category", " ", "totals">>,
              assumptions |-> "llm_assumptions",
              calls |-> [i \in 1..Len(names) |-> LlmCall(i, names[i])],
              output |-> "llm_output"] : names \in SeqsUpTo(PlanToolNames, MaxCalls)}

PlannerReplies == {[kind |-> k, plan |-> NoPlan] : k \in {"empty", "blank", "notjson", "badschema"}}
                  \cup {[kind |-> "plan", plan |-> p] : p \in LlmPlans}

\* the reply recorded when the language model was not consulted
NotAsked == [kind |-> "not_asked", plan |-> NoPlan]

\* raw = self._llm.complete(prompt).strip()
StripReply(reply) == IF reply.kind = "blank" THEN [reply EXCEPT !.kind = "empty"] ELSE reply

_empty_plan(request, objective) ==
    [schema_version |-> "ledgermind.plan.v1", objective |-> objective,
     assumptions |-> "currency=USD", calls |-> <<>>,
     output |-> "decision_response:spend_reduction"]

\* (variant: a fallback plan that calls the preferred tool or nothing)
_fallback_plan_preferred_only(tools) ==
    [schema_version |-> "ledgermind.plan.v1",
     objective |-> <<"Generate", " ", "a", " ", "plan">>,
     assumptions |-> "month_to_date,currency=USD",
     calls |-> IF PREFERRED \in Range(tools)
               THEN <<[id |-> <<"s", "1">>, tool |-> PREFERRED,
                       args |-> [date_range |-> [start |-> isoformat([today EXCEPT !.day = 1]),
                                                 end |-> isoformat(today)],
                                 exclude_transfers |-> TRUE],
                       purpose |-> "Compute spending and income totals by category"]>>
               ELSE <<>>,
     output |-> "decision_response:spend_reduction,cash_buffer"]

\* (variant: a fallback plan that calls the first registered tool)
_fallback_plan_first_tool(tools) ==
    [schema_version |-> "ledgermind.plan.v1",
     objective |-> <<"Generate", " ", "a", " ", "plan">>,
     assumptions |-> "month_to_date,currency=USD",
     calls |-> <<[id |-> <<"s", "1">>, tool |-> tools[1],
                  args |-> [date_range |-> [start |-> isoformat([today EXCEPT !.day = 1]),
                                            end |-> isoformat(today)],
                            exclude_transfers |-> TRUE],
                  purpose |-> "Compute spending and income totals by category"]>>,
     output |-> "decision_response:spend_reduction,cash_buffer"]

_fallback_plan(tools) ==
    LET selected == IF PREFERRED \in Range(tools) THEN PREFERRED ELSE tools[1]
    IN [schema_version |-> "ledgermind.plan.v1",
        objective |-> <<"Generate", " ", "a", " ", "grounded", " ", "financial", " ",
                        "performance", " ", "review", " ", "and", " ",
                        "improvements", " ", "plan">>,
        assumptions |-> "month_to_date,currency=USD",
        calls |-> <<[id |-> <<"s", "1">>, tool |-> selected,
                     args |-> [date_range |-> [start |-> isoformat([today EXCEPT !.day = 1]),
                                               end |-> isoformat(today)],
                               exclude_transfers |-> TRUE],
                     purpose |-> "Compute spending and income totals by category"]>>,
        output |-> "decision_response:spend_reduction,cash_buffer"]

\* (variant: of the calls naming one tool, the first alone is kept)
FilterCallsOnce(calls, valid_names) ==
    LET keep == {i \in 1..Len(calls) :
                    /\ calls[i].tool \in valid_names
                    /\ \A k \in 1..(i - 1) : calls[k].tool # calls[i].tool}
    IN [j \in 1..Cardinality(keep) |->
           calls[CHOOSE i \in keep : Cardinality({k \in keep : k <= i}) = j]]

\* (variant: the parsed calls as they are)
FilterCallsKeepAll(calls, valid_names) == calls

\* [call for call in parsed.calls if call.tool in valid_names]
RECURSIVE FilterCalls(_, _)
FilterCalls(calls, valid_names) ==
    IF calls = <<>> THEN <<>>
    ELSE IF Head(calls).tool \in valid_names
         THEN <<Head(calls)>> \o FilterCalls(Tail(calls), valid_names)
         ELSE FilterCalls(Tail(calls), valid_names)

\* (variant: a parsed plan is returned even when no call of it is left)
generate_plan_keeps_empty(request, tools, reply) ==
    IF tools = <<>> THEN _empty_plan(request, request.message)
    ELSE LET raw == StripReply(reply) IN
         IF raw.kind # "plan" THEN _fallback_plan(tools)
         ELSE [raw.plan EXCEPT !.calls = FilterCalls(raw.plan.calls, Range(tools))]

generate_plan(request, tools, reply) ==
    LET \* LedgerMindPlan.model_validate_json(raw) returns (does not raise)
        PlanParses(raw) == raw.kind = "plan"
    IN
    IF tools = <<>> THEN _empty_plan(request, request.message)
    ELSE LET raw == StripReply(reply) IN
         IF raw.kind = "empty" THEN _fallback_plan(tools)
         ELSE IF ~PlanParses(raw) THEN _fallback_plan(tools)
         ELSE LET filtered_calls == FilterCalls(raw.plan.calls, Range(tools)) IN
              IF filtered_calls = <<>> THEN _fallback_plan(tools)
              ELSE [raw.plan EXCEPT !.calls = filtered_calls]

\* PlannerService.plan
plan_service(request, reg, reply) == generate_plan(request, list_specs(reg), reply)

(***************************************************************************)
(* Tool executor (src/src/application/tool_executor.py).                   *)
(***************************************************************************)
ToolContext(user_request) ==
    [user_id |-> user_request.user_id, ledger_id |-> "ldg_main",
     timezone |-> user_request.context.timezone,
     policy_profile |-> user_request.context.policy_profile]

\* (variant: every request gets a context of its own, named after its call)
ToolRequestOwnContext(user_request, call, context) ==
    [request_id |-> <<user_request.request_id, ":">> \o call.id,
     tool |-> call.tool, args |-> call.args,
     context |-> [context EXCEPT !.ledger_id = call.tool]]

ToolRequest(user_request, call, context) ==
    [request_id |-> <<user_request.request_id, ":">> \o call.id,
     tool |-> call.tool, args |-> call.args, context |-> context]

\* what tool.run(req) can do: return a response built the way the
\* repository's tools build it, or raise
ToolOutcomes(req) ==
    LET \* exceptions a tool can raise: [cls, text], text = str(exc)
        ToolFaults == {[cls |-> <<"RuntimeError">>, text |-> <<>>],
                       [cls |-> <<"ValueError">>, text |-> <<"ledger", " ", "unavailable">>]}
    IN
    {[raised |-> FALSE, exc |-> [cls |-> <<>>, text |-> <<>>],
      response |-> [request_id |-> req.request_id, tool |-> req.tool, ok |-> TRUE,
                    result |-> p, errors |-> <<>>, context |-> req.context]]
       : p \in Payloads}
    \cup
    {[raised |-> FALSE, exc |-> [cls |-> <<>>, text |-> <<>>],
      response |-> [request_id |-> req.request_id, tool |-> req.tool, ok |-> FALSE,
                    result |-> <<>>, errors |-> <<<<"no", " ", "budget">>>>,
                    context |-> req.context]]}
    \cup
    {[raised |-> TRUE, exc |-> f,
      response |-> [request_id |-> <<>>, tool |-> "", ok |-> FALSE,
                    result |-> <<>>, errors |-> <<>>, context |-> req.context]]
       : f \in ToolFaults}

\* (variant: str(exc) alone)
ErrorTextOnly(exc) == exc.text

\* str(exc) or exc.__class__.__name__
ErrorText(exc) == IF exc.text # <<>> THEN exc.text ELSE exc.cls

\* the response of the except branch
FailedResponse(req, exc, context) ==
    [request_id |-> req.request_id, tool |-> req.tool, ok |-> FALSE,
     result |-> <<>>, errors |-> <<ErrorText(exc)>>, context |-> context]

\* (variant: a call whose tool raised is run a second time)
CallResultRetry(reg, req, outcome, context) ==
    LET got == get_tool(reg, req.tool) IN
    IF ~got.ok
    THEN [propagates |-> FALSE, tool_runs |-> 0,
          response |-> FailedResponse(req, got.exc, context)]
    ELSE IF outcome.raised
    THEN [propagates |-> FALSE, tool_runs |-> 2,
          response |-> FailedResponse(req, outcome.exc, context)]
    ELSE [propagates |-> FALSE, tool_runs |-> 1, response |-> outcome.response]

\* one iteration of the loop: the try block, then the except branch, which
\* catches every Exception; .propagates says whether an exception leaves
\* run_calls, .tool_runs how many times tool.run(req) was called
CallResult(reg, req, outcome, context) ==
    LET got == get_tool(reg, req.tool) IN
    IF ~got.ok
    THEN [propagates |-> FALSE, tool_runs |-> 0,
          response |-> FailedResponse(req, got.exc, context)]
    ELSE IF outcome.raised
    THEN [propagates |-> FALSE, tool_runs |-> 1,
          response |-> FailedResponse(req, outcome.exc, context)]
    ELSE [propagates |-> FALSE, tool_runs |-> 1, response |-> outcome.response]

\* (variant: a failed call leaves no response)
RecordIfOk(responses, response) ==
    IF response.ok THEN Append(responses, response) ELSE responses

\* responses.append(response)
Record(responses, response) == Append(responses, response)


(***************************************************************************)
(* Answers (src/src/domain/schemas.py).  Fields that no modelled code      *)
(* reads (label, why, tradeoffs, policy_alignment,                         *)
(* assumptions_and_confidence) are left out.  The fixed sentences of the   *)
(* fallback answer are cut to their first words and the words next to      *)
(* their digits; no cut adds or removes a digit.                           *)
(***************************************************************************)
EXPECTED_SCHEMA == "ledgermind.answer.v1"

NoRef == [has |-> FALSE, citation_id |-> <<>>, path |-> <<>>]
EvidenceRef(cid, path) == [has |-> TRUE, citation_id |-> cid, path |-> path]

NoText == [has |-> FALSE, text |-> <<>>]
SomeText(t) == [has |-> TRUE, text |-> t]

NumericEvidence(id, value, unit, type, ref, assumption) ==
    [id |-> id, value |-> value, unit |-> unit, type |-> type,
     evidence_ref |-> ref, assumption |-> assumption]

AnswerOption(id, title, steps, impact) ==
    [id |-> id, title |-> title, steps |-> steps, impact |-> impact]

NoAction == [has |-> FALSE, title |-> <<>>, next_7_days |-> <<>>, next_30_days |-> <<>>]
RecommendedAction(title, n7, n30) ==
    [has |-> TRUE, title |-> title, next_7_days |-> n7, next_30_days |-> n30]

EngineAnswer(schema, headline, bullets, numbers, options, action, risks, trace) ==
    [schema_version |-> schema, summary |-> [headline |-> headline, bullets |-> bullets],
     supporting_numbers |-> numbers, options |-> options, recommended_action |-> action,
     risks_and_tradeoffs |-> risks, trace |-> trace]

(***************************************************************************)
(* Answer composer (src/src/llm/answer_llm.py).                            *)
(***************************************************************************)
\* isinstance(value, (int, float)): bool is an int
IsNumeric(v) == v.t \in {"num", "bool", "bigint"}

OverflowError == [cls |-> <<"OverflowError">>,
                  text |-> <<"int", " ", "too", " ", "large", " ", "to", " ", "convert">>]

\* whether the loop over first.result.items() raises: it converts every
\* int and float value, outside any try block
FallbackRaises(evidence) ==
    LET \* float(value) raises OverflowError on an int beyond the range of float
        FloatRaises(v) == v.t = "bigint"
    IN
    /\ evidence # <<>>
    /\ \E i \in 1..Len(evidence[1].result) :
          IsNumeric(evidence[1].result[i].v) /\ FloatRaises(evidence[1].result[i].v)

\* the loop over enumerate(first.result.items(), start=1)
RECURSIVE FallbackNumbers(_, _)
FallbackNumbers(result, idx) ==
    IF idx > Len(result) THEN <<>>
    ELSE (IF IsNumeric(result[idx].v)
          THEN <<NumericEvidence(<<"n">> \o IntStr(idx), result[idx].v.n, "USD", "evidence",
                                 EvidenceRef(<<"c", "1">>, <<"result", ".">> \o result[idx].k),
                                 NoText)>>
          ELSE <<>>) \o FallbackNumbers(result, idx + 1)

_fallback_answer(request, plan, evidence) ==
    LET numbers == IF evidence # <<>> THEN FallbackNumbers(evidence[1].result, 1) ELSE <<>>
        tool_names == [i \in 1..Len(evidence) |-> evidence[i].tool]
        headline == IF numbers # <<>>
                    THEN <<"Grounded", " ", "review", " ", "generated", ";", " ", "prioritize">>
                    ELSE <<"Tool", "-", "backed", " ", "financial", " ", "review", ";">>
    IN EngineAnswer(
         "ledgermind.answer.v1",
         headline,
         << <<"Objective", ":", " ">> \o plan.objective,
            <<"Tool", " ", "calls", " ", "executed", ":", " ">> \o IntStr(Len(evidence)),
            <<"Recommendation", " ", "prioritizes", " ", "savings", ".">> >>,
         numbers,
         << AnswerOption("o1", <<"Low", "-", "friction", " ", "cleanup">>,
                         << <<"Review", " ", "recurring", " ", "charges", ".">>,
                            <<"Cancel", " ", "or", " ", "downgrade", ".">> >>,
                         <<>>),
            AnswerOption("o2", <<"Category", " ", "cap">>,
                         << <<"Set", " ", "a", " ", "cap", ".">>,
                            <<"Check", " ", "weekly", ".">> >>,
                         << NumericEvidence(<<"n_assump_1">>, 5000, "USD", "assumption", NoRef,
                                            SomeText(<<"Illustrative", " ", "target">>)) >>) >>,
         RecommendedAction(
            <<"Start", " ", "with", " ", "cleanup", ",", " ", "then", " ", "cap", " ",
              "for", " ", "4", " ", "weeks", ".">>,
            << <<"Review", " ", "flagged", " ", "charges", ".">>,
               <<"Set", " ", "a", " ", "weekly", " ", "cap", ".">> >>,
            << <<"Re", "-", "run", " ", "the", " ", "same", " ", "plan", ".">>,
               <<"Confirm", " ", "cancelled", " ", "charges", ".">> >>),
         << <<"Results", " ", "may", " ", "not", " ", "represent", " ", "a", " ", "typical",
              " ", "month", ".">>,
            <<"Subscription", " ", "detection", " ", "may", " ", "include", " ", "false",
              " ", "positives", ".">> >>,
         [plan_id |-> request.request_id, tool_calls_used |-> tool_names])

\* whether generate_answer takes the fallback
UsesFallbackAnswer(reply) ==
    LET \* raw = self._llm.complete(prompt).strip(); a completion is, as for the
        \* planner, "empty", "blank", "notjson", "badschema" (JSON that EngineAnswer
        \* rejects) or "answer" (JSON that EngineAnswer accepts, parsed as .answer)
        AnswerParses(raw) == raw.kind = "answer"
    IN
    LET raw == StripReply(reply) IN ~(raw.kind # "empty" /\ AnswerParses(raw))

\* (variant: any non-empty text is taken as the model's answer)
generate_answer_unchecked(request, plan, evidence, reply) ==
    IF StripReply(reply).kind # "empty" THEN reply.answer
    ELSE _fallback_answer(request, plan, evidence)

\* the value generate_answer returns, when it returns
generate_answer(request, plan, evidence, reply) ==
    IF ~UsesFallbackAnswer(reply) THEN reply.answer
    ELSE _fallback_answer(request, plan, evidence)

\* whether generate_answer raises instead: _fallback_answer is called
\* outside the try block
generate_answer_raises(evidence, reply) ==
    UsesFallbackAnswer(reply) /\ FallbackRaises(evidence)

\* AnswerService.compose
compose(request, plan, evidence, reply) == generate_answer(request, plan, evidence, reply)

compose_raises(evidence, reply) == generate_answer_raises(evidence, reply)


(***************************************************************************)
(* Grounding validator (src/src/application/validator.py).                 *)
(***************************************************************************)
MIN_OPTIONS == 2
MAX_OPTIONS == 3

ValidationIssue(code, about, path, severity) ==
    [code |-> code, about |-> about, path |-> path, severity |-> severity]

\* f"{name}[{i}]" with i counted from 0 (enumerate)
Indexed(name, i) == <<name, "[">> \o IntStr(i - 1) \o <<"]">>

\* _normalize_evidence on a list of tool responses
RECURSIVE NormalizeFrom(_, _, _)
NormalizeFrom(evidence, idx, bundle) ==
    IF idx > Len(evidence) THEN bundle
    ELSE LET item == evidence[idx] IN
         NormalizeFrom(evidence, idx + 1,
            [tool_outputs |-> Store(bundle.tool_outputs, item.tool,
                                    [request_id |-> item.request_id, ok |-> item.ok,
                                     result |-> item.result, errors |-> item.errors,
                                     context |-> item.context]),
             citations |-> Store(bundle.citations, <<"c">> \o IntStr(idx),
                                 DictV(<<[k |-> <<"result">>, v |-> DictV(item.result)]>>))])

\* evidence handed to validate as a dict (an already shaped bundle) is
\* written as a one-element sequence holding the dict under .bundle; a list
\* of tool responses is the sequence of the responses
IsBundle(evidence) == Len(evidence) = 1 /\ "bundle" \in DOMAIN evidence[1]

\* (variant: one citation for each tool of the list)
_normalize_evidence_by_tool(evidence) ==
    IF IsBundle(evidence) THEN evidence[1].bundle
    ELSE LET acc == NormalizeFrom(evidence, 1, [tool_outputs |-> <<>>, citations |-> <<>>])
         IN <<[k |-> <<"tool_outputs">>, v |-> DictV(acc.tool_outputs)],
              [k |-> <<"citations">>,
               v |-> DictV(SubSeq(acc.citations, 1, Len(acc.tool_outputs)))]>>

_normalize_evidence(evidence) ==
    IF IsBundle(evidence) THEN evidence[1].bundle
    ELSE LET acc == NormalizeFrom(evidence, 1, [tool_outputs |-> <<>>, citations |-> <<>>])
         IN <<[k |-> <<"tool_outputs">>, v |-> DictV(acc.tool_outputs)],
              [k |-> <<"citations">>, v |-> DictV(acc.citations)]>>

\* (variant: citation ids counted from c0)
CitationIdsFromZero(bundle) ==
    {<<"c">> \o IntStr(i - 1) : i \in 1..Len(Get(bundle, <<"citations">>).d)}

\* k.startswith("c")
StartsWithC(k) ==
    LET \* words of the model's keys that start with the letter c
        CWords == {"c", "citations", "context", "count"}
    IN
    k # <<>> /\ Head(k) \in CWords

\* out.get("citations") or [] for one value of tool_outputs
OutCitations(out) ==
    LET c == Get(out.d, <<"citations">>) IN IF Truthy(c) THEN c ELSE ListV(<<>>)

\* the items the loop "for c in (...)" walks: the items of a list, the keys
\* of a dict, the characters of a str
Items(v) ==
    CASE v.t = "list" -> v.l
      [] v.t = "dict" -> [i \in 1..Len(v.d) |-> TextV(v.d[i].k)]
      [] v.t = "str" -> [i \in 1..Len(v.s) |-> TextV(<<v.s[i]>>)]
      [] OTHER -> <<>>

\* the exception the loop over the items of out's citations raises first,
\* "" when it raises none: c.get on an item that is not a dict, ids.add of
\* an unhashable citation id
RECURSIVE ItemsScanFault(_, _)
ItemsScanFault(items, j) ==
    IF j > Len(items) THEN ""
    ELSE IF items[j].t # "dict" THEN "AttributeError"
    ELSE LET cid == Get(items[j].d, <<"citation_id">>) IN
         IF Truthy(cid) /\ cid.t \in {"dict", "list"} THEN "TypeError"
         ELSE ItemsScanFault(items, j + 1)

RECURSIVE OutputsScanFault(_, _)
OutputsScanFault(tool_outputs, i) ==
    LET \* the exception the scan of one value of tool_outputs raises, "" when it
        \* raises none: out.get on a value that is not a dict, iteration over a
        \* number, then the items
        OutScanFault(out) ==
            IF out.t # "dict" THEN "AttributeError"
            ELSE IF OutCitations(out).t \in {"num", "bool", "bigint"} THEN "TypeError"
            ELSE ItemsScanFault(Items(OutCitations(out)), 1)
    IN
    IF i > Len(tool_outputs) THEN ""
    ELSE IF OutScanFault(tool_outputs[i].v) # "" THEN OutScanFault(tool_outputs[i].v)
    ELSE OutputsScanFault(tool_outputs, i + 1)

\* the exception _collect_citation_ids raises, "" when it returns (keys of
\* a bundle are strings, so k.startswith raises nothing)
_collect_citation_ids_fault(bundle) ==
    IF Get(bundle, <<"citations">>).t # "dict" /\ Get(bundle, <<"tool_outputs">>).t = "dict"
    THEN OutputsScanFault(Get(bundle, <<"tool_outputs">>).d, 1)
    ELSE ""

\* the ids the scan of tool_outputs adds: citation ids that are strings
\* (a hashable id of another type is added as well, and equals no str)
ScannedIds(tool_outputs) ==
    UNION {{Get(Items(OutCitations(tool_outputs[i].v))[j].d, <<"citation_id">>).s :
               j \in {m \in 1..Len(Items(OutCitations(tool_outputs[i].v))) :
                         LET cid == Get(Items(OutCitations(tool_outputs[i].v))[m].d,
                                        <<"citation_id">>)
                         IN Truthy(cid) /\ cid.t = "str"}} :
              i \in 1..Len(tool_outputs)}

\* _collect_citation_ids, when it returns
_collect_citation_ids(bundle) ==
    LET citations == Get(bundle, <<"citations">>)
        tool_outputs == Get(bundle, <<"tool_outputs">>)
    IN IF citations.t = "dict" THEN Keys(citations.d)
       ELSE (IF tool_outputs.t = "dict" THEN ScannedIds(tool_outputs.d) ELSE {})
            \cup {bundle[i].k : i \in {m \in 1..Len(bundle) :
                                         bundle[m].v.t = "dict" /\ StartsWithC(bundle[m].k)}}

\* (variant: an empty path segment does not resolve)
RECURSIVE WalkPathStrict(_, _)
WalkPathStrict(cur, parts) ==
    IF parts = <<>> THEN TRUE
    ELSE IF cur.t = "dict" /\ HasKey(cur.d, Head(parts))
         THEN WalkPathStrict(Lookup(cur.d, Head(parts)), Tail(parts))
         ELSE FALSE

\* the loop of _try_resolve_path over path.split(".")
RECURSIVE WalkPath(_, _)
WalkPath(cur, parts) ==
    IF parts = <<>> THEN TRUE
    ELSE IF Head(parts) = <<>> THEN WalkPath(cur, Tail(parts))
    ELSE IF cur.t = "dict" /\ HasKey(cur.d, Head(parts))
         THEN WalkPath(Lookup(cur.d, Head(parts)), Tail(parts))
         ELSE FALSE

_try_resolve_path(bundle, citation_id, path) ==
    LET citations == Get(bundle, <<"citations">>) IN
    IF citations.t # "dict" THEN TRUE
    ELSE LET payload == Get(citations.d, citation_id) IN
         IF payload.t # "dict" THEN FALSE
         ELSE WalkPath(payload, Split(path))

\* str(val) of a float with at most two decimals
FloatStr(c) ==
    IntStr(c \div 100) \o <<".">> \o
    (IF c % 10 = 0 THEN <<Digits[((c % 100) \div 10) + 1]>>
     ELSE <<Digits[((c % 100) \div 10) + 1], Digits[(c % 10) + 1]>>)

\* (variant: only the raw writing of a number is supported)
NumberTokensRawOnly(n) == {FloatStr(n.value)}

NumberTokens(n) ==
    LET \* int(round(f)): ties go to the even integer
        RoundInt(c) ==
            LET w == c \div 100
                f == c % 100
            IN IF f > 50 \/ (f = 50 /\ w % 2 = 1) THEN w + 1 ELSE w
    IN
    LET s == FloatStr(n.value)
        i == IntStr(RoundInt(n.value))
    IN {s, i, <<"$">> \o s, <<"$">> \o i}
       \cup (IF n.unit = "USD" THEN {<<"$">> \o s} ELSE {})

_supported_number_tokens(answer) ==
    UNION {NumberTokens(answer.supporting_numbers[j]) :
              j \in 1..Len(answer.supporting_numbers)}

\* [(f"{name}[{i}]", s) for i, s in enumerate(items)], i from `from`
RECURSIVE ListFields(_, _, _, _)
ListFields(name, items, i, skip_empty) ==
    IF i > Len(items) THEN <<>>
    ELSE (IF skip_empty /\ items[i] = <<>> THEN <<>>
          ELSE <<[path |-> Indexed(name, i), text |-> items[i]]>>)
         \o ListFields(name, items, i + 1, skip_empty)

_gather_text_fields(answer) ==
    (IF answer.summary.headline # <<>>
     THEN <<[path |-> <<"summary.headline">>, text |-> answer.summary.headline]>>
     ELSE <<>>)
    \o ListFields("summary.bullets", answer.summary.bullets, 1, TRUE)
    \o (IF answer.recommended_action.has
        THEN (IF answer.recommended_action.title # <<>>
              THEN <<[path |-> <<"recommended_action.title">>,
                      text |-> answer.recommended_action.title]>>
              ELSE <<>>)
             \o ListFields("recommended_action.next_7_days",
                           answer.recommended_action.next_7_days, 1, FALSE)
             \o ListFields("recommended_action.next_30_days",
                           answer.recommended_action.next_30_days, 1, FALSE)
        ELSE <<>>)
    \o ListFields("risks_and_tradeoffs", answer.risks_and_tradeoffs, 1, FALSE)

(* _NUM_RE:  (?<![\w/])( \$?\d{1,3}(?:,\d{3})*(?:\.\d+)?                   *)
(*                     | \$?\d+(?:\.\d+)? )(?![\w/])                        *)
(* A match attempt at position i tries the ends the pattern can reach in   *)
(* the order of the regular-expression engine (first alternative first,    *)
(* every repetition greedy) and takes the first end the lookahead accepts. *)
RECURSIVE DigitRun(_, _)
DigitRun(t, p) == IF p <= Len(t) /\ IsDigit(t[p]) THEN 1 + DigitRun(t, p + 1) ELSE 0

\* ends after (?:\.\d+)? tried from r: the longest fraction first, none last
TailEnds(t, r) ==
    LET R == IF r <= Len(t) /\ t[r] = "." THEN DigitRun(t, r + 1) ELSE 0
    IN [j \in 1..R |-> r + R + 2 - j] \o <<r>>

\* ends after (?:,\d{3})*(?:\.\d+)? tried from q: most groups first
RECURSIVE GroupEnds(_, _)
GroupEnds(t, q) ==
    LET \* ,\d{3} matches at q
        GroupAt(s, g) == g <= Len(s) /\ s[g] = "," /\ DigitRun(s, g + 1) >= 3
    IN
    (IF GroupAt(t, q) THEN GroupEnds(t, q + 4) ELSE <<>>) \o TailEnds(t, q)

\* ends of \d{1,3}(?:,\d{3})*(?:\.\d+)? from p, with at most k leading digits
RECURSIVE GroupedEnds(_, _, _)
GroupedEnds(t, p, k) ==
    IF k = 0 THEN <<>> ELSE GroupEnds(t, p + k) \o GroupedEnds(t, p, k - 1)

\* ends of \d+(?:\.\d+)? from p, with at most k leading digits
RECURSIVE PlainEnds(_, _, _)
PlainEnds(t, p, k) ==
    IF k = 0 THEN <<>> ELSE TailEnds(t, p + k) \o PlainEnds(t, p, k - 1)

\* the end (exclusive) of the match starting at i, 0 when there is none
MatchEnd(t, i) ==
    LET Lookahead(s, e) == e > Len(s) \/ ~(IsWord(s[e]) \/ s[e] = "/")
    IN
    LET Lookbehind(s, b) == b = 1 \/ ~(IsWord(s[b - 1]) \/ s[b - 1] = "/")
    IN
    LET Min(a, b) == IF a < b THEN a ELSE b
    IN
    LET p == IF t[i] = "$" THEN i + 1 ELSE i
        run == DigitRun(t, p)
        ends == GroupedEnds(t, p, Min(run, 3)) \o PlainEnds(t, p, run)
        ok == {j \in 1..Len(ends) : Lookahead(t, ends[j])}
    IN IF ~Lookbehind(t, i) \/ ok = {} THEN 0
       ELSE ends[CHOOSE j \in ok : \A l \in ok : j <= l]

\* finditer: leftmost matches, each search resuming where the last match ended
RECURSIVE FindFrom(_, _)
FindFrom(t, i) ==
    IF i > Len(t) THEN <<>>
    ELSE LET e == MatchEnd(t, i) IN
         IF e = 0 THEN FindFrom(t, i + 1)
         ELSE <<SubSeq(t, i, e - 1)>> \o FindFrom(t, e)

_extract_numeric_tokens(text) == IF text = <<>> THEN <<>> ELSE FindFrom(text, 1)

\* (variant: only a digit without a currency sign is skipped)
LowSignalBareDigit(token) == Len(token) = 1 /\ IsDigit(token[1])

\* re.fullmatch(r"\$?\d", token)
LowSignal(token) ==
    \/ Len(token) = 1 /\ IsDigit(token[1])
    \/ Len(token) = 2 /\ token[1] = "$" /\ IsDigit(token[2])


\* (variant: an option count out of range is an error)
OptionsCountAsError(options) ==
    IF ~(MIN_OPTIONS <= Len(options) /\ Len(options) <= MAX_OPTIONS)
    THEN <<ValidationIssue("OPTIONS_COUNT", IntStr(Len(options)), <<"options">>, "error")>>
    ELSE <<>>

\* check 3, the count: if not (MIN_OPTIONS <= len(options) <= MAX_OPTIONS)
OptionsCountIssues(options) ==
    IF ~(MIN_OPTIONS <= Len(options) /\ Len(options) <= MAX_OPTIONS)
    THEN <<ValidationIssue("OPTIONS_COUNT", IntStr(Len(options)), <<"options">>, "warn")>>
    ELSE <<>>

\* check 3, the loop over enumerate(options)
RECURSIVE OptionIssues(_, _)
OptionIssues(options, i) ==
    IF i > Len(options) THEN <<>>
    ELSE (IF options[i].title = <<>>
          THEN <<ValidationIssue("OPTION_MISSING_TITLE", IntStr(i - 1),
                                 Indexed("options", i) \o <<".title">>, "error")>>
          ELSE <<>>)
         \o (IF Len(options[i].steps) = 0
             THEN <<ValidationIssue("OPTION_MISSING_STEPS", IntStr(i - 1),
                                    Indexed("options", i) \o <<".steps">>, "warn")>>
             ELSE <<>>)
         \o OptionIssues(options, i + 1)

\* check 4 for one supporting number: the body of the loop over
\* enumerate(supporting_numbers)
NumberIssues(number, idx, bundle, known_citation_ids) ==
    LET at == Indexed("supporting_numbers", idx)
        ref == number.evidence_ref
    IN IF number.type = "evidence" THEN
          IF ~ref.has
          THEN <<ValidationIssue("EVIDENCE_MISSING_REF", number.id,
                                 at \o <<".evidence_ref">>, "error")>>
          ELSE IF ref.citation_id = <<>>
          THEN <<ValidationIssue("EVIDENCE_MISSING_CITATION_ID", number.id,
                                 at \o <<".evidence_ref.citation_id">>, "error")>>
          ELSE IF ref.citation_id \notin known_citation_ids
          THEN <<ValidationIssue("UNKNOWN_CITATION_ID", ref.citation_id,
                                 at \o <<".evidence_ref.citation_id">>, "error")>>
          ELSE IF ref.path # <<>> /\ ~_try_resolve_path(bundle, ref.citation_id, ref.path)
          THEN <<ValidationIssue("EVIDENCE_PATH_UNRESOLVED", ref.path,
                                 at \o <<".evidence_ref.path">>, "warn")>>
          ELSE <<>>
       ELSE IF number.type = "assumption" THEN
          IF ~number.assumption.has \/ number.assumption.text = <<>>
          THEN <<ValidationIssue("ASSUMPTION_MISSING_RATIONALE", number.id,
                                 at \o <<".assumption">>, "error")>>
          ELSE <<>>
       ELSE <<ValidationIssue("UNKNOWN_NUMBER_TYPE", <<number.type>>,
                              at \o <<".type">>, "error")>>

RECURSIVE GroundingIssues(_, _, _, _)
GroundingIssues(numbers, idx, bundle, known_citation_ids) ==
    IF idx > Len(numbers) THEN <<>>
    ELSE NumberIssues(numbers[idx], idx, bundle, known_citation_ids)
         \o GroundingIssues(numbers, idx + 1, bundle, known_citation_ids)

\* check 5 for one text field: the loop over _extract_numeric_tokens(text)
RECURSIVE TokenIssues(_, _, _)
TokenIssues(path, tokens, supported) ==
    IF tokens = <<>> THEN <<>>
    ELSE (IF ~LowSignal(Head(tokens)) /\ Head(tokens) \notin supported
          THEN <<ValidationIssue("UNCITED_NUMBER_IN_TEXT", Head(tokens), path, "warn")>>
          ELSE <<>>)
         \o TokenIssues(path, Tail(tokens), supported)

RECURSIVE TextIssues(_, _)
TextIssues(fields, supported) ==
    IF fields = <<>> THEN <<>>
    ELSE TokenIssues(Head(fields).path, _extract_numeric_tokens(Head(fields).text), supported)
         \o TextIssues(Tail(fields), supported)

\* the numbers check 4 walks: getattr(answer, "supporting_numbers", []) or []
GroundedNumbers(answer) == answer.supporting_numbers

\* the exception validate raises, "" when it returns
validate_fault(answer, evidence) == _collect_citation_ids_fault(_normalize_evidence(evidence))

\* (variant: the issue list of the call before is kept)
issues_kept(before) == before

\* issues: list[ValidationIssue] = [], a new list in every call
issues_new(before) == <<>>

\* (variant: validate returns at the first check that reports an issue)
validate_first_failure(answer, evidence) ==
    LET evidence_bundle == _normalize_evidence(evidence)
        known_citation_ids == _collect_citation_ids(evidence_bundle)
        checks == << IF answer.schema_version # EXPECTED_SCHEMA
                     THEN <<ValidationIssue("SCHEMA_VERSION", <<answer.schema_version>>,
                                            <<"schema_version">>, "error")>>
                     ELSE <<>>,
                     IF answer.summary.headline = <<>>
                     THEN <<ValidationIssue("MISSING_HEADLINE", <<>>, <<"summary.headline">>,
                                            "error")>>
                     ELSE <<>>,
                     IF ~answer.recommended_action.has \/ answer.recommended_action.title = <<>>
                     THEN <<ValidationIssue("MISSING_RECOMMENDED_ACTION_TITLE", <<>>,
                                            <<"recommended_action.title">>, "error")>>
                     ELSE <<>>,
                     OptionsCountIssues(answer.options),
                     OptionIssues(answer.options, 1),
                     GroundingIssues(GroundedNumbers(answer), 1, evidence_bundle,
                                     known_citation_ids),
                     TextIssues(_gather_text_fields(answer), _supported_number_tokens(answer)) >>
    IN IF \A k \in 1..7 : checks[k] = <<>> THEN <<>>
       ELSE checks[CHOOSE k \in 1..7 : checks[k] # <<>> /\ \A m \in 1..(k - 1) : checks[m] = <<>>]

\* the issue list validate returns, when it returns
validate(answer, evidence) ==
    LET evidence_bundle == _normalize_evidence(evidence)
        known_citation_ids == _collect_citation_ids(evidence_bundle)
    IN (IF answer.schema_version # EXPECTED_SCHEMA
        THEN <<ValidationIssue("SCHEMA_VERSION", <<answer.schema_version>>,
                               <<"schema_version">>, "error")>>
        ELSE <<>>)
       \o (IF answer.summary.headline = <<>>
           THEN <<ValidationIssue("MISSING_HEADLINE", <<>>, <<"summary.headline">>, "error")>>
           ELSE <<>>)
       \o (IF ~answer.recommended_action.has \/ answer.recommended_action.title = <<>>
           THEN <<ValidationIssue("MISSING_RECOMMENDED_ACTION_TITLE", <<>>,
                                  <<"recommended_action.title">>, "error")>>
           ELSE <<>>)
       \o OptionsCountIssues(answer.options)
       \o OptionIssues(answer.options, 1)
       \o GroundingIssues(GroundedNumbers(answer), 1, evidence_bundle, known_citation_ids)
       \o TextIssues(_gather_text_fields(answer), _supported_number_tokens(answer))


(***************************************************************************)
(* Answers a language model can return to the composer, and the inputs of  *)
(* validate.                                                               *)
(***************************************************************************)
GoodOption(id) == AnswerOption(id, <<"Cut", " ", "subscriptions">>,
                               << <<"Cancel", " ", "one", ".">> >>, <<>>)

SpentHeadline == <<"Spent", " ", "$", "4", "8", "7", ".", "4", "5", " ", "this", " ", "month">>

PlainHeadline == <<"Spending", " ", "review">>

NoTrace == [plan_id |-> "", tool_calls_used |-> <<>>]

\* (schema, headline, recommended action, options) of the sample answers
Shapes ==
    LET GoodAction == RecommendedAction(<<"Cancel", " ", "one", " ", "subscription">>,
                                        << <<"Review", " ", "charges", ".">> >>, <<>>)
    IN
    LET \* an option whose impact holds an evidence-typed number that cites nothing
        ImpactOption(id) ==
            AnswerOption(id, <<"Cap", " ", "dining">>, << <<"Set", " ", "a", " ", "cap", ".">> >>,
                         << NumericEvidence(<<"i1">>, 12000, "USD", "evidence", NoRef, NoText) >>)
    IN
    LET \* no title, no steps
        BareOption(id) == AnswerOption(id, <<>>, <<>>, <<>>)
    IN
    {
    [schema |-> EXPECTED_SCHEMA, headline |-> SpentHeadline, action |-> GoodAction,
     options |-> <<GoodOption("o1"), GoodOption("o2"), GoodOption("o3")>>],
    [schema |-> EXPECTED_SCHEMA, headline |-> PlainHeadline, action |-> GoodAction,
     options |-> <<GoodOption("o1"), ImpactOption("o2")>>],
    [schema |-> EXPECTED_SCHEMA, headline |-> PlainHeadline,
     action |-> RecommendedAction(<<>>, <<>>, <<>>),
     options |-> <<GoodOption("o1")>>],
    [schema |-> EXPECTED_SCHEMA, headline |-> PlainHeadline, action |-> GoodAction,
     options |-> <<GoodOption("o1"), BareOption("o2"), GoodOption("o3"), GoodOption("o4")>>],
    [schema |-> "ledgermind.answer.v2", headline |-> <<>>, action |-> NoAction,
     options |-> <<>>] }

\* supporting numbers as EngineAnswer accepts them: type is "evidence" or
\* "assumption"; evidence_ref and assumption are optional; citation_id and
\* path are any strings
NumberSamples ==
    LET Path(key) == <<"result", ".">> \o key
    IN
    {
    NumericEvidence(<<"n1">>, 48745, "USD", "evidence",
                    EvidenceRef(<<"c", "1">>, Path(<<"groceries">>)), NoText),
    NumericEvidence(<<"n2">>, 120000, "USD", "evidence",
                    EvidenceRef(<<"c", "2">>, Path(<<"rows", ".", ".", "count">>)), NoText),
    NumericEvidence(<<"n3">>, 120000, "count", "evidence",
                    EvidenceRef(<<"c", "1">>, Path(<<"by", ".", "month">>)), NoText),
    NumericEvidence(<<"n4">>, 48745, "USD", "evidence",
                    EvidenceRef(<<"c", "1">>, <<>>), NoText),
    NumericEvidence(<<"n5">>, 48745, "USD", "evidence",
                    EvidenceRef(<<"c", "9">>, Path(<<"groceries">>)), NoText),
    NumericEvidence(<<"n6">>, 48745, "USD", "evidence",
                    EvidenceRef(<<>>, Path(<<"groceries">>)), NoText),
    NumericEvidence(<<"n7">>, 48745, "USD", "evidence", NoRef, NoText),
    NumericEvidence(<<"n8">>, 5000, "USD", "assumption", NoRef,
                    SomeText(<<"Illustrative", " ", "target">>)),
    NumericEvidence(<<"n9">>, 5000, "USD", "assumption", NoRef, NoText) }

MakeAnswer(shape, numbers) ==
    EngineAnswer(shape.schema, shape.headline, <<>>, numbers, shape.options, shape.action,
                 <<>>, NoTrace)

NoAnswer == MakeAnswer([schema |-> "", headline |-> <<>>, action |-> NoAction,
                        options |-> <<>>], <<>>)

NoReplyAnswer == [kind |-> "not_asked", answer |-> NoAnswer]

ComposerReplies ==
    LET \* answers the language model returns to the composer of an engine run
        LlmAnswers == {MakeAnswer(sh, <<>>) : sh \in Shapes}
                      \cup {MakeAnswer(sh, <<n>>) :
                               sh \in {x \in Shapes : x.headline = SpentHeadline},
                               n \in {m \in NumberSamples : m.id \in {<<"n1">>, <<"n5">>}}}
    IN
    {[kind |-> k, answer |-> NoAnswer] : k \in {"empty", "blank", "notjson", "badschema"}}
                   \cup {[kind |-> "answer", answer |-> a] : a \in LlmAnswers}

SampleResponses ==
    LET \* evidence lists handed to validate: responses as run_calls records them
        SampleContext == [user_id |-> "u_123", ledger_id |-> "ldg_main", timezone |-> "UTC",
                          policy_profile |-> "default_v1"]
    IN
    {[request_id |-> <<"req_001", ":", "s", "1">>, tool |-> PREFERRED, ok |-> TRUE,
      result |-> p, errors |-> <<>>, context |-> SampleContext] : p \in Payloads \ {<<>>}}
    \cup
    {[request_id |-> <<"req_001", ":", "s", "1">>, tool |-> "detect.anomalies", ok |-> FALSE,
      result |-> <<>>, errors |-> <<<<"RuntimeError">>>>, context |-> SampleContext]}

(***************************************************************************)
(* State.                                                                  *)
(***************************************************************************)
VARIABLES
    registry,      \* ToolRegistry._tools: name to tool object, in insertion order
    found,         \* what the last get_tool or get returned or raised
    ops,           \* history: the register and clear operations performed
    llmCalls,      \* history: the calls of LLMClient.complete, each with its outcome
    runs,          \* the frames of concurrent invocations of engine.run
    request,       \* the UserRequest of the run
    pc,            \* where LedgerMindEngine.run (or the validate harness) stands
    plannerLlm,    \* what the completion service returns to the planner when asked
    plannerAsked,  \* whether the planner called the completion service
    plan,          \* engine.run's local plan
    context,       \* run_calls' local context
    idx,           \* run_calls: the position of the next call of the plan
    responses,     \* run_calls' local responses
    produced,      \* history: call position -> what the iteration did: whether an
                   \* exception was raised (and which), how many times the tool
                   \* was run, the context of its request, and the response built
    evidence,      \* engine.run's local evidence
    composerLlm,   \* what the completion service returns to the composer
    answer,        \* engine.run's local answer
    issues,        \* engine.run's local issues
    fault,         \* the exception that left engine.run, if any
    log            \* history: the stages entered, each with what it was given

vars == <<registry, today, found, ops, llmCalls, runs, request, pc, plannerLlm, plannerAsked, plan, context, idx, responses,
          produced, evidence, composerLlm, answer, issues, fault, log>>

\* no lookup yet
NoLookup == [op |-> "", name |-> "", at |-> 0, ok |-> FALSE, tool |-> "",
             exc |-> [cls |-> <<>>, text |-> <<>>]]

NoContext == [user_id |-> "", ledger_id |-> "", timezone |-> "", policy_profile |-> ""]
NoFault == [cls |-> <<>>, text |-> <<>>]

Entry(stage, p, e, a) == [stage |-> stage, plan |-> p, evidence |-> e, answer |-> a]

(***************************************************************************)
(* LedgerMindEngine.run (src/src/application/engine.py): one run of the    *)
(* engine on a registry populated at start-up.                             *)
(***************************************************************************)
Init ==
    /\ registry \in Registries
    /\ today = RunDate
    /\ found = NoLookup
    /\ ops = <<>>
    /\ llmCalls = <<>>
    /\ runs = <<>>
    /\ request \in UserRequests
    /\ pc = "planner"
    /\ plannerLlm = NotAsked
    /\ plannerAsked = FALSE
    /\ plan = NoPlan
    /\ context = NoContext
    /\ idx = 0
    /\ responses = <<>>
    /\ produced = <<>>
    /\ evidence = <<>>
    /\ composerLlm = NoReplyAnswer
    /\ answer = NoAnswer
    /\ issues = <<>>
    /\ fault = NoFault
    /\ log = <<>>

\* (variant: run goes from the executor straight to the validator)
run_next_no_composer(stage) ==
    CASE stage = "planner" -> "executor"
      [] stage = "executor" -> "validator"
      [] stage = "composer" -> "validator"
      [] stage = "validator" -> "done"

\* the statement of run that follows the given one
run_next(stage) ==
    CASE stage = "planner" -> "executor"
      [] stage = "executor" -> "composer"
      [] stage = "composer" -> "validator"
      [] stage = "validator" -> "done"

\* plan = self._planner.plan(request)
Planner ==
    LET \* whether generate_plan reaches self._llm.complete
        AsksPlannerLlm(tools) == tools # <<>>
    IN
    /\ pc = "planner"
    /\ \E reply \in PlannerReplies :
          /\ plannerLlm' = reply
          /\ plan' = plan_service(request, registry, reply)
    /\ plannerAsked' = AsksPlannerLlm(list_specs(registry))
    /\ log' = Append(log, Entry("planner", NoPlan, <<>>, NoAnswer))
    /\ pc' = run_next("planner")
    /\ UNCHANGED <<registry, today, found, ops, llmCalls, runs, request, context, idx, responses, produced, evidence,
                   composerLlm, answer, issues, fault>>

\* evidence = self._tool_executor.run_calls(plan, request): entry, lines 17-23
RunCallsBegin ==
    /\ pc = "executor"
    /\ context' = ToolContext(request)
    /\ responses' = <<>>
    /\ idx' = 1
    /\ log' = Append(log, Entry("executor", plan, <<>>, NoAnswer))
    /\ pc' = "calls"
    /\ UNCHANGED <<registry, today, found, ops, llmCalls, runs, request, plannerLlm, plannerAsked, plan, produced, evidence,
                   composerLlm, answer, issues, fault>>

\* one iteration of the loop over plan.calls, lines 24-46
RunCall ==
    /\ pc = "calls"
    /\ idx <= Len(plan.calls)
    /\ LET req == ToolRequest(request, plan.calls[idx], context) IN
       \E outcome \in ToolOutcomes(req) :
          LET res == CallResult(registry, req, outcome, context)
              got == get_tool(registry, req.tool)
              did == [call |-> plan.calls[idx],
                      raised |-> ~got.ok \/ outcome.raised,
                      exc |-> IF ~got.ok THEN got.exc ELSE outcome.exc,
                      tool_runs |-> res.tool_runs,
                      context |-> req.context,
                      response |-> res.response]
          IN
          IF res.propagates
          THEN /\ fault' = outcome.exc
               /\ pc' = "fault"
               /\ UNCHANGED <<responses, produced, idx>>
          ELSE /\ responses' = Record(responses, res.response)
               /\ produced' = [i \in 1..idx |-> IF i = idx THEN did ELSE produced[i]]
               /\ idx' = idx + 1
               /\ UNCHANGED <<fault, pc>>
    /\ UNCHANGED <<registry, today, found, ops, llmCalls, runs, request, plannerLlm, plannerAsked, plan, context, evidence,
                   composerLlm, answer, issues, log>>

\* return responses, line 47
RunCallsReturn ==
    /\ pc = "calls"
    /\ idx > Len(plan.calls)
    /\ evidence' = responses
    /\ pc' = run_next("executor")
    /\ UNCHANGED <<registry, today, found, ops, llmCalls, runs, request, plannerLlm, plannerAsked, plan, context, idx, responses,
                   produced, composerLlm, answer, issues, fault, log>>

\* answer = self._answer_service.compose(request, plan, evidence)
Composer ==
    /\ pc = "composer"
    /\ \E reply \in ComposerReplies :
          /\ composerLlm' = reply
          /\ IF compose_raises(evidence, reply)
             THEN /\ fault' = OverflowError
                  /\ pc' = "fault"
                  /\ UNCHANGED answer
             ELSE /\ answer' = compose(request, plan, evidence, reply)
                  /\ pc' = run_next("composer")
                  /\ UNCHANGED fault
    /\ log' = Append(log, Entry("composer", plan, evidence, NoAnswer))
    /\ UNCHANGED <<registry, today, found, ops, llmCalls, runs, request, plannerLlm, plannerAsked, plan, context, idx, responses,
                   produced, evidence, issues>>

\* issues = self._validator.validate(answer, evidence); return answer, issues
Validator ==
    /\ pc = "validator"
    /\ issues' = validate(answer, evidence)
    /\ log' = Append(log, Entry("validator", NoPlan, evidence, answer))
    /\ pc' = run_next("validator")
    /\ UNCHANGED <<registry, today, found, ops, llmCalls, runs, request, plannerLlm, plannerAsked, plan, context, idx, responses,
                   produced, evidence, composerLlm, answer, fault>>

Next == Planner \/ RunCallsBegin \/ RunCall \/ RunCallsReturn \/ Composer \/ Validator

Spec == Init /\ [][Next]_vars

(***************************************************************************)
(* ValidatorService.validate as a function: applied to every sample answer *)
(* and every sample evidence list.                                         *)
(***************************************************************************)
InitValidate ==
    LET EvidenceLists == SeqsUpTo(SampleResponses, MaxEvidence)
    IN
    LET \* answers handed to validate
        ValidateAnswers == {MakeAnswer(sh, ns) : sh \in Shapes, ns \in SeqsUpTo(NumberSamples, MaxNumbers)}
    IN
    /\ registry = <<>>
    /\ today = RunDate
    /\ found = NoLookup
    /\ ops = <<>>
    /\ llmCalls = <<>>
    /\ runs = <<>>
    /\ request \in {r \in UserRequests : r.message = CHOOSE m \in Messages : TRUE}
    /\ pc = "validate"
    /\ plannerLlm = NotAsked
    /\ plannerAsked = FALSE
    /\ plan = NoPlan
    /\ context = NoContext
    /\ idx = 0
    /\ responses = <<>>
    /\ produced = <<>>
    /\ evidence \in EvidenceLists
    /\ composerLlm = NoReplyAnswer
    /\ answer \in ValidateAnswers
    /\ issues = <<>>
    /\ fault = NoFault
    /\ log = <<>>

\* one call of validate(answer, evidence), the first or a later one
ValidateCall ==
    /\ IF validate_fault(answer, evidence) # ""
       THEN /\ fault' = [cls |-> <<validate_fault(answer, evidence)>>, text |-> <<>>]
            /\ pc' = "fault"
            /\ UNCHANGED issues
       ELSE /\ issues' = issues_new(issues) \o validate(answer, evidence)
            /\ pc' = IF pc = "validate" THEN "validated" ELSE "revalidated"
            /\ UNCHANGED fault
    /\ UNCHANGED <<registry, today, found, ops, llmCalls, runs, request, plannerLlm, plannerAsked, plan, context, idx, responses,
                   produced, evidence, composerLlm, answer, log>>

Validate == pc = "validate" /\ ValidateCall

\* a second call of validate on the same answer and evidence
Revalidate == pc = "validated" /\ ValidateCall

NextValidate == Validate

SpecValidate == InitValidate /\ [][NextValidate]_vars


(***************************************************************************)
(* ToolExecutor.run_calls on its own: applied to every plan a caller can   *)
(* hand it, whether or not its tool names are registered.                  *)
(***************************************************************************)
InitExecutor ==
    /\ registry \in Registries
    /\ today = RunDate
    /\ found = NoLookup
    /\ ops = <<>>
    /\ llmCalls = <<>>
    /\ runs = <<>>
    /\ request \in {r \in UserRequests : r.message = CHOOSE m \in Messages : TRUE}
    /\ pc = "executor"
    /\ plannerLlm = NotAsked
    /\ plannerAsked = FALSE
    /\ plan \in LlmPlans
    /\ context = NoContext
    /\ idx = 0
    /\ responses = <<>>
    /\ produced = <<>>
    /\ evidence = <<>>
    /\ composerLlm = NoReplyAnswer
    /\ answer = NoAnswer
    /\ issues = <<>>
    /\ fault = NoFault
    /\ log = <<>>

NextExecutor == RunCallsBegin \/ RunCall \/ RunCallsReturn

SpecExecutor == InitExecutor /\ [][NextExecutor]_vars


(***************************************************************************)
(* Properties.                                                             *)
(***************************************************************************)
RunCallsReturned == pc \in {"composer", "validator", "done"}

ScopedRequestId(call) == <<request.request_id, ":">> \o call.id

\* C1: run_calls returns exactly one response per call of the plan, and the
\* i-th response is the one the iteration for the i-th call built (it
\* carries that call's scoped request id and tool name), however many
\* calls fail.
C1_OneResponsePerCallInOrder ==
    /\ pc = "calls" => Len(responses) = idx - 1 /\ Len(produced) = idx - 1
    /\ RunCallsReturned =>
          /\ Len(evidence) = Len(plan.calls)
          /\ \A i \in 1..Len(plan.calls) :
                /\ evidence[i] = produced[i].response
                /\ produced[i].call = plan.calls[i]
                /\ evidence[i].request_id = ScopedRequestId(plan.calls[i])
                /\ evidence[i].tool = plan.calls[i].tool

\* a returned run of two calls whose first call failed and whose second
\* succeeded
C1_Witness ==
    /\ RunCallsReturned
    /\ Len(plan.calls) = 2
    /\ produced[1].raised /\ ~evidence[1].ok
    /\ ~produced[2].raised /\ evidence[2].ok

\* C2: a call whose tool lookup or tool run raises is recorded as a
\* response with ok = false, the call's tool name and scoped request id and
\* exactly one error string, which is not empty: the exception text, or the
\* class name when the text is empty; and every later call of the plan is
\* still executed.
C2_FailureIsRecordedAndRunGoesOn ==
    /\ \A i \in 1..Len(produced) :
          produced[i].raised =>
             LET r == responses[i] IN
             /\ r = produced[i].response
             /\ ~r.ok
             /\ r.tool = plan.calls[i].tool
             /\ r.request_id = ScopedRequestId(plan.calls[i])
             /\ Len(r.errors) = 1
             /\ r.errors[1] # <<>>
             /\ r.errors[1] = IF produced[i].exc.text # <<>> THEN produced[i].exc.text
                              ELSE produced[i].exc.cls
    /\ pc = "calls" => idx = Len(produced) + 1
    /\ RunCallsReturned => Len(produced) = Len(plan.calls)

\* the first call named an unregistered tool, the second raised an
\* exception without text, and a third position was reached
C2_Witness ==
    /\ RunCallsReturned
    /\ Len(plan.calls) = 2
    /\ produced[1].raised /\ produced[1].exc.cls = <<"KeyError">>
    /\ produced[2].raised /\ produced[2].exc.text = <<>>
    /\ evidence[2].errors = <<<<"RuntimeError">>>>

StageOrder == <<"planner", "executor", "composer", "validator">>

C4_RunReturnsWithoutFault ==
    /\ pc # "fault"
    /\ fault = NoFault
    /\ pc = "done" => answer # NoAnswer /\ issues = validate(answer, evidence)

StructuralCodes == {"SCHEMA_VERSION", "MISSING_HEADLINE",
                    "MISSING_RECOMMENDED_ACTION_TITLE", "OPTION_MISSING_TITLE"}

HasIssue(code) == \E i \in 1..Len(issues) : issues[i].code = code

HasStructuralError ==
    \E i \in 1..Len(issues) : issues[i].code \in StructuralCodes /\ issues[i].severity = "error"

StructurallyValid(a) ==
    /\ a.schema_version = "ledgermind.answer.v1"
    /\ a.summary.headline # <<>>
    /\ a.recommended_action.has /\ a.recommended_action.title # <<>>
    /\ \A i \in 1..Len(a.options) : a.options[i].title # <<>>

\* the completion handed to the composer is empty, blank or does not parse
\* as an EngineAnswer
ComposerFellBack == composerLlm.kind \in {"empty", "blank", "notjson", "badschema"}

\* C5 as stated: the answer engine.run returns is structurally valid
\* whatever the completion service returned (schema version
\* ledgermind.answer.v1, a headline, a recommended-action title, a title on
\* every option), and its issues hold no structural error.
C5_ReturnedAnswerAlwaysValid ==
    pc = "done" => StructurallyValid(answer) /\ ~HasStructuralError

\* C5 as amended: the answer engine.run returns is structurally valid, and
\* its issues hold no structural error, whenever the composer fell back; an
\* answer parsed from the model's text is returned as it is, and its issues
\* report each structural defect it has, as an error.
C5_FallbackValidElseReported ==
    pc = "done" =>
       /\ ComposerFellBack => StructurallyValid(answer) /\ ~HasStructuralError
       /\ ~ComposerFellBack => answer = composerLlm.answer
       /\ HasIssue("SCHEMA_VERSION") <=> answer.schema_version # "ledgermind.answer.v1"
       /\ HasIssue("MISSING_HEADLINE") <=> answer.summary.headline = <<>>
       /\ HasIssue("MISSING_RECOMMENDED_ACTION_TITLE") <=>
             ~(answer.recommended_action.has /\ answer.recommended_action.title # <<>>)
       /\ HasIssue("OPTION_MISSING_TITLE") <=>
             \E i \in 1..Len(answer.options) : answer.options[i].title = <<>>
       /\ \A i \in 1..Len(issues) :
             issues[i].code \in StructuralCodes => issues[i].severity = "error"

\* a returned run whose composer got text that is not JSON, after a tool
\* call that returned a result
C5_Witness ==
    /\ pc = "done"
    /\ composerLlm.kind = "notjson"
    /\ evidence # <<>> /\ evidence[1].ok /\ evidence[1].result # <<>>
    /\ StructurallyValid(answer)

PlannerReturned == pc # "planner"

\* C6 as stated: when the completion service returns the empty string, the
\* plan Planner.plan returns has at least one call.
C6_EmptyCompletionPlanHasCall ==
    (PlannerReturned /\ plannerLlm.kind = "empty") => Len(plan.calls) >= 1

\* C6 as amended: when the completion service returns the empty string and
\* at least one tool is registered, the plan Planner.plan returns has
\* exactly one call, to a registered tool; with no tool registered the
\* planner does not consult the completion service and returns a plan
\* without calls.
C6_EmptyCompletionPlanHasCallIfTools ==
    PlannerReturned =>
       /\ (plannerLlm.kind = "empty" /\ registry # <<>>) =>
             /\ plannerAsked
             /\ Len(plan.calls) = 1
             /\ plan.calls[1].tool \in Keys(registry)
       /\ registry = <<>> => ~plannerAsked /\ Len(plan.calls) = 0

\* the planner got the empty string with one tool registered, which is not
\* the preferred one, and planned a call to it
C6_Witness ==
    /\ pc = "executor"
    /\ plannerLlm.kind = "empty"
    /\ Keys(registry) = {"detect.anomalies"}
    /\ Len(plan.calls) = 1 /\ plan.calls[1].tool = "detect.anomalies"

ComposerEntered == Len(log) >= 3

ErrorIssues == {i \in 1..Len(issues) : issues[i].severity = "error"}

\* what C7 asks of a fallback answer
FallbackShape(a) ==
    /\ a.schema_version = "ledgermind.answer.v1"
    /\ a.summary.headline # <<>>
    /\ a.recommended_action.has /\ a.recommended_action.title # <<>>
    /\ Len(a.options) = 2
    /\ \A i \in 1..Len(a.options) : a.options[i].title # <<>> /\ a.options[i].steps # <<>>
    /\ \A j \in 1..Len(a.supporting_numbers) :
          a.supporting_numbers[j].type = "evidence" => a.supporting_numbers[j].evidence_ref.has

\* C7: when the completion service returns the empty string, compose
\* returns an answer, whatever the plan and the evidence: one of schema
\* version ledgermind.answer.v1 with a headline, a recommended-action title,
\* two options that each have a title and steps, and an evidence_ref on
\* every supporting number of type evidence; and validating that answer
\* against the same evidence reports no error.
C7_EmptyCompletionAnswerValid ==
    (ComposerEntered /\ composerLlm.kind = "empty") =>
       /\ pc \in {"validator", "done"}
       /\ FallbackShape(answer)
       /\ pc = "done" => ErrorIssues = {}

Validated == pc = "validated"

\* the citation ids of an evidence list: c1 for its first response, c2 for
\* its second, and so on
KnownIds == {<<"c">> \o IntStr(k) : k \in 1..Len(evidence)}

\* the path of supporting number j (counted from 1) in an issue
NumberAt(j) == <<"supporting_numbers", "[">> \o IntStr(j - 1) \o <<"]">>

Reports(code, path) ==
    \E i \in 1..Len(issues) : issues[i].code = code /\ issues[i].path = path

EvidenceNumbers ==
    {j \in 1..Len(answer.supporting_numbers) : answer.supporting_numbers[j].type = "evidence"}

ReportsUnknownCitation(j) ==
    Reports("UNKNOWN_CITATION_ID", NumberAt(j) \o <<".evidence_ref.citation_id">>)

\* C8 as stated: for every supporting number of type evidence that has a
\* citation id, validate reports UNKNOWN_CITATION_ID for it if and only if
\* that id is not among the citation ids of the evidence list.
C8_UnknownCitationIffAbsent ==
    Validated =>
       \A j \in EvidenceNumbers :
          LET ref == answer.supporting_numbers[j].evidence_ref IN
          ref.has => (ReportsUnknownCitation(j) <=> ref.citation_id \notin KnownIds)

\* C8 as amended: for every supporting number of type evidence whose
\* evidence_ref has a non-empty citation id, validate reports
\* UNKNOWN_CITATION_ID for it if and only if that id is not among the
\* citation ids of the evidence list; a number without evidence_ref, or
\* with an empty citation id, is never reported as UNKNOWN_CITATION_ID.
C8_UnknownCitationIffAbsentNonEmpty ==
    Validated =>
       \A j \in EvidenceNumbers :
          LET ref == answer.supporting_numbers[j].evidence_ref IN
          IF ref.has /\ ref.citation_id # <<>>
          THEN ReportsUnknownCitation(j) <=> ref.citation_id \notin KnownIds
          ELSE ~ReportsUnknownCitation(j)

\* one response of evidence; the first number cites c1 and is not
\* reported, the second cites c2 and is
C8_Witness ==
    /\ Validated
    /\ Len(evidence) = 1
    /\ Len(answer.supporting_numbers) = 2
    /\ EvidenceNumbers = {1, 2}
    /\ answer.supporting_numbers[1].evidence_ref.citation_id = <<"c", "1">>
    /\ answer.supporting_numbers[2].evidence_ref.citation_id = <<"c", "2">>
    /\ ~ReportsUnknownCitation(1) /\ ReportsUnknownCitation(2)

\* every NumericEvidence of an answer: its supporting numbers and the
\* impact numbers of its options
RECURSIVE ImpactNumbers(_, _)
ImpactNumbers(options, i) ==
    IF i > Len(options) THEN <<>>
    ELSE options[i].impact \o ImpactNumbers(options, i + 1)

AllNumbers(a) == a.supporting_numbers \o ImpactNumbers(a.options, 1)

\* a number that is cited (type evidence, with a citation id of the
\* evidence list) or labelled an assumption with a rationale
CitedOrAssumed(n) ==
    \/ /\ n.type = "evidence"
       /\ n.evidence_ref.has
       /\ n.evidence_ref.citation_id \in KnownIds
    \/ /\ n.type = "assumption"
       /\ n.assumption.has /\ n.assumption.text # <<>>

\* C9: when validate returns no issue, every number of the answer, among
\* its supporting numbers and in the impact list of any option, is cited
\* with a citation id of the evidence list or is an assumption with a
\* rationale.
C9_NoIssueMeansAllNumbersGrounded ==
    (Validated /\ issues = <<>>) =>
       \A j \in 1..Len(AllNumbers(answer)) : CitedOrAssumed(AllNumbers(answer)[j])

\* what validate does ensure when it returns no issue: every supporting
\* number is cited or an assumption with a rationale
NoIssueMeansSupportingNumbersGrounded ==
    (Validated /\ issues = <<>>) =>
       \A j \in 1..Len(answer.supporting_numbers) :
          CitedOrAssumed(answer.supporting_numbers[j])

FourCodes == {"EVIDENCE_MISSING_REF", "EVIDENCE_MISSING_CITATION_ID",
              "UNKNOWN_CITATION_ID", "EVIDENCE_PATH_UNRESOLVED"}

\* the issues of the four evidence codes reported for supporting number j
EvidenceIssuesOf(j) ==
    {i \in 1..Len(issues) :
        /\ issues[i].code \in FourCodes
        /\ issues[i].path \in {NumberAt(j) \o <<s>> :
              s \in {".evidence_ref", ".evidence_ref.citation_id", ".evidence_ref.path"}}}

\* the position in the evidence list that a known citation id names
CitedPosition(cid) == CHOOSE k \in 1..Len(evidence) : cid = <<"c">> \o IntStr(k)

\* the segments of a dotted path that are not empty
Segments(path) == SelectSeq(Split(path), LAMBDA seg : seg # <<>>)

\* following segments n, n+1, ... from cur leads through dict keys only
RECURSIVE Follow(_, _, _)
Follow(cur, segs, n) ==
    IF n > Len(segs) THEN TRUE
    ELSE /\ cur.t = "dict"
         /\ \E e \in 1..Len(cur.d) : cur.d[e].k = segs[n] /\ Follow(cur.d[e].v, segs, n + 1)

\* the dotted path resolves against the payload {"result": <result>} of
\* the cited response
Resolves(cid, path) ==
    Follow(DictV(<<[k |-> <<"result">>, v |-> DictV(evidence[CitedPosition(cid)].result)]>>),
           Segments(path), 1)

\* C10: for one supporting number of type evidence validate reports at
\* most one of EVIDENCE_MISSING_REF, EVIDENCE_MISSING_CITATION_ID,
\* UNKNOWN_CITATION_ID and EVIDENCE_PATH_UNRESOLVED; the first three are
\* errors and are reported for a missing evidence_ref, an empty citation id
\* and a citation id that is not known, whatever the path;
\* EVIDENCE_PATH_UNRESOLVED is a warning, reported exactly when the citation
\* id is known, a path is given and the path does not resolve against the
\* cited payload.
C10_AtMostOneEvidenceIssue ==
    Validated =>
       \A j \in EvidenceNumbers :
          LET ref == answer.supporting_numbers[j].evidence_ref
              at == NumberAt(j)
          IN /\ Cardinality(EvidenceIssuesOf(j)) <= 1
             /\ \A i \in EvidenceIssuesOf(j) :
                   issues[i].severity =
                      IF issues[i].code = "EVIDENCE_PATH_UNRESOLVED" THEN "warn" ELSE "error"
             /\ Reports("EVIDENCE_MISSING_REF", at \o <<".evidence_ref">>) <=> ~ref.has
             /\ Reports("EVIDENCE_MISSING_CITATION_ID", at \o <<".evidence_ref.citation_id">>)
                   <=> (ref.has /\ ref.citation_id = <<>>)
             /\ Reports("UNKNOWN_CITATION_ID", at \o <<".evidence_ref.citation_id">>)
                   <=> (ref.has /\ ref.citation_id # <<>> /\ ref.citation_id \notin KnownIds)
             /\ Reports("EVIDENCE_PATH_UNRESOLVED", at \o <<".evidence_ref.path">>)
                   <=> /\ ref.has
                       /\ ref.citation_id \in KnownIds
                       /\ ref.path # <<>>
                       /\ ~Resolves(ref.citation_id, ref.path)

\* two responses of evidence; the first number cites c2 by a path with an
\* empty segment that resolves and is not reported, the second cites c1 by
\* a path that does not resolve and gets the warning alone
C10_Witness ==
    /\ Validated
    /\ Len(evidence) = 2
    /\ Len(answer.supporting_numbers) = 2
    /\ EvidenceNumbers = {1, 2}
    /\ answer.supporting_numbers[1].evidence_ref.citation_id = <<"c", "2">>
    /\ <<>> \in Range(Split(answer.supporting_numbers[1].evidence_ref.path))
    /\ EvidenceIssuesOf(1) = {}
    /\ Cardinality(EvidenceIssuesOf(2)) = 1
    /\ Reports("EVIDENCE_PATH_UNRESOLVED", NumberAt(2) \o <<".evidence_ref.path">>)

\* the issues of one code, by position in the issue list
IssuesOfCode(code) == {i \in 1..Len(issues) : issues[i].code = code}

\* C11: validate reports exactly one OPTIONS_COUNT issue, a warning on the
\* path options, when the answer has fewer than 2 or more than 3 options,
\* and none when it has 2 or 3.
C11_OptionsCountWarnsOnce ==
    Validated =>
       LET n == Len(answer.options) IN
       /\ (n < 2 \/ n > 3) => Cardinality(IssuesOfCode("OPTIONS_COUNT")) = 1
       /\ (n = 2 \/ n = 3) => IssuesOfCode("OPTIONS_COUNT") = {}
       /\ \A i \in IssuesOfCode("OPTIONS_COUNT") :
             issues[i].severity = "warn" /\ issues[i].path = <<"options">>

\* an answer with exactly one option got the warning
C11_Witness ==
    /\ Validated
    /\ Len(answer.options) = 1
    /\ \E i \in 1..Len(issues) : issues[i].code = "OPTIONS_COUNT" /\ issues[i].severity = "warn"

(***************************************************************************)
(* The text scan of validate (check 5) on its own: validate applied to     *)
(* answers whose free-text fields hold numbers written in several ways.    *)
(***************************************************************************)
\* "Save $487 of 1,200 in 4 weeks"
SaveText == <<"Save", " ", "$", "4", "8", "7", " ", "of", " ", "1", ",", "2", "0", "0",
              " ", "in", " ", "4", " ", "weeks">>

\* "About 488 or 487.5 and 487.5"
AboutText == <<"About", " ", "4", "8", "8", " ", "or", " ", "4", "8", "7", ".", "5",
               " ", "and", " ", "4", "8", "7", ".", "5">>

\* "Plan v2 costs $5 and 50/60 of 1200.0"
RatioText == <<"Plan", " ", "v", "2", " ", "costs", " ", "$", "5", " ", "and", " ",
               "5", "0", "/", "6", "0", " ", "of", " ", "1", "2", "0", "0", ".", "0">>

InitScan ==
    LET ScanAnswers ==
            LET ScanNumbers ==
                    LET \* supporting numbers of the scanned answers: 487.45 USD, 1200.0 USD,
                        \* 487.5 (a count) and 50.0 USD
                        ScanNumber(id, value, unit) ==
                            NumericEvidence(<<id>>, value, unit, "assumption", NoRef,
                                            SomeText(<<"Illustrative", " ", "target">>))
                    IN
                    {ScanNumber("a1", 48745, "USD"), ScanNumber("a2", 120000, "USD"),
                                ScanNumber("a3", 48750, "count"), ScanNumber("a4", 5000, "USD")}
            IN
            LET ScanTexts == {SpentHeadline, SaveText, AboutText, RatioText, PlainHeadline}
            IN
            {EngineAnswer(EXPECTED_SCHEMA, h, b, ns, <<GoodOption("o1"), GoodOption("o2")>>,
                          RecommendedAction(<<"Cancel", " ", "one", " ", "subscription">>, <<SaveText>>,
                                            <<AboutText>>),
                          <<RatioText>>, NoTrace) :
                h \in ScanTexts,
                b \in {<<>>, <<SaveText>>, <<SpentHeadline, AboutText>>},
                ns \in SeqsUpTo(ScanNumbers, MaxNumbers)}
    IN
    /\ registry = <<>>
    /\ today = RunDate
    /\ found = NoLookup
    /\ ops = <<>>
    /\ llmCalls = <<>>
    /\ runs = <<>>
    /\ request \in {r \in UserRequests : r.message = CHOOSE m \in Messages : TRUE}
    /\ pc = "validate"
    /\ plannerLlm = NotAsked
    /\ plannerAsked = FALSE
    /\ plan = NoPlan
    /\ context = NoContext
    /\ idx = 0
    /\ responses = <<>>
    /\ produced = <<>>
    /\ evidence = <<>>
    /\ composerLlm = NoReplyAnswer
    /\ answer \in ScanAnswers
    /\ issues = <<>>
    /\ fault = NoFault
    /\ log = <<>>

SpecScan == InitScan /\ [][NextValidate]_vars

\* the numeric tokens of each scanned text, in order of occurrence, as the
\* regular expression _NUM_RE finds them
TokensOf(text) ==
    CASE text = SpentHeadline -> << <<"$", "4", "8", "7", ".", "4", "5">> >>
      [] text = SaveText -> << <<"$", "4", "8", "7">>, <<"1", ",", "2", "0", "0">>, <<"4">> >>
      [] text = AboutText -> << <<"4", "8", "8">>, <<"4", "8", "7", ".", "5">>,
                               <<"4", "8", "7", ".", "5">> >>
      [] text = RatioText -> << <<"$", "5">>, <<"1", "2", "0", "0", ".", "0">> >>
      [] OTHER -> <<>>

\* the raw and the integer-rounded writing of each supporting number
WritingsOf(n) ==
    CASE n.value = 48745 -> {<<"4", "8", "7", ".", "4", "5">>, <<"4", "8", "7">>}
      [] n.value = 120000 -> {<<"1", "2", "0", "0", ".", "0">>, <<"1", "2", "0", "0">>}
      [] n.value = 48750 -> {<<"4", "8", "7", ".", "5">>, <<"4", "8", "8">>}
      [] n.value = 5000 -> {<<"5", "0", ".", "0">>, <<"5", "0">>}

\* the canonical forms of the supporting numbers: each writing, with or
\* without a currency sign before it
CanonicalForms ==
    UNION {WritingsOf(answer.supporting_numbers[j]) \cup
           {<<"$">> \o w : w \in WritingsOf(answer.supporting_numbers[j])} :
              j \in 1..Len(answer.supporting_numbers)}

SingleDigit(token) ==
    \E d \in {"0", "1", "2", "3", "4", "5", "6", "7", "8", "9"} :
       token = <<d>> \/ token = <<"$", d>>

FieldAt(name, i) == <<name, "[">> \o IntStr(i - 1) \o <<"]">>

\* the scanned text fields of the answer, in the order validate scans them
ScannedFields ==
    <<[path |-> <<"summary.headline">>, text |-> answer.summary.headline]>>
    \o [i \in 1..Len(answer.summary.bullets) |->
           [path |-> FieldAt("summary.bullets", i), text |-> answer.summary.bullets[i]]]
    \o <<[path |-> <<"recommended_action.title">>, text |-> answer.recommended_action.title]>>
    \o [i \in 1..Len(answer.recommended_action.next_7_days) |->
           [path |-> FieldAt("recommended_action.next_7_days", i),
            text |-> answer.recommended_action.next_7_days[i]]]
    \o [i \in 1..Len(answer.recommended_action.next_30_days) |->
           [path |-> FieldAt("recommended_action.next_30_days", i),
            text |-> answer.recommended_action.next_30_days[i]]]
    \o [i \in 1..Len(answer.risks_and_tradeoffs) |->
           [path |-> FieldAt("risks_and_tradeoffs", i), text |-> answer.risks_and_tradeoffs[i]]]

\* one [token, path] per occurrence of a token that is to be reported
RECURSIVE UncitedIn(_, _, _)
UncitedIn(path, tokens, exempt_single_digit) ==
    IF tokens = <<>> THEN <<>>
    ELSE (IF Head(tokens) \in CanonicalForms
             \/ (exempt_single_digit /\ SingleDigit(Head(tokens)))
          THEN <<>>
          ELSE <<[token |-> Head(tokens), path |-> path]>>)
         \o UncitedIn(path, Tail(tokens), exempt_single_digit)

RECURSIVE UncitedFrom(_, _, _)
UncitedFrom(fields, n, exempt_single_digit) ==
    IF n > Len(fields) THEN <<>>
    ELSE UncitedIn(fields[n].path, TokensOf(fields[n].text), exempt_single_digit)
         \o UncitedFrom(fields, n + 1, exempt_single_digit)

\* the UNCITED_NUMBER_IN_TEXT issues validate returned, in order
RECURSIVE ReportedUncitedFrom(_)
ReportedUncitedFrom(i) ==
    IF i > Len(issues) THEN <<>>
    ELSE (IF issues[i].code = "UNCITED_NUMBER_IN_TEXT"
          THEN <<[token |-> issues[i].about, path |-> issues[i].path]>>
          ELSE <<>>) \o ReportedUncitedFrom(i + 1)

UncitedAreWarnings ==
    \A i \in IssuesOfCode("UNCITED_NUMBER_IN_TEXT") : issues[i].severity = "warn"

\* C12 as stated: every occurrence of a numeric token in a scanned text
\* field gets no UNCITED_NUMBER_IN_TEXT issue when the token is a canonical
\* form of a supporting number, and otherwise exactly one, a warning on the
\* path of its field.
C12_UncitedTokenPerOccurrence ==
    Validated =>
       /\ ReportedUncitedFrom(1) = UncitedFrom(ScannedFields, 1, FALSE)
       /\ UncitedAreWarnings

\* C12 as amended: the same, except that a token of a single digit, with or
\* without a currency sign, is never reported.
C12_UncitedTokenPerOccurrenceButDigits ==
    Validated =>
       /\ ReportedUncitedFrom(1) = UncitedFrom(ScannedFields, 1, TRUE)
       /\ UncitedAreWarnings

\* the headline "Spent $487.45 this month" with no supporting number: one
\* warning for $487.45 on summary.headline, before those of the later fields
C12_Witness ==
    /\ Validated
    /\ answer.summary.headline = SpentHeadline
    /\ answer.summary.bullets = <<>>
    /\ answer.supporting_numbers = <<>>
    /\ IssuesOfCode("UNCITED_NUMBER_IN_TEXT") # {}
    /\ ReportedUncitedFrom(1)[1] =
          [token |-> <<"$", "4", "8", "7", ".", "4", "5">>, path |-> <<"summary.headline">>]
    /\ \A i \in 2..Len(ReportedUncitedFrom(1)) :
          ReportedUncitedFrom(1)[i].path # <<"summary.headline">>

(***************************************************************************)
(* validate on evidence of either kind, a list of tool responses or an     *)
(* already shaped bundle (a dict), called twice on the same arguments.     *)
(***************************************************************************)

InitBundle ==
    LET BundleAnswers ==
            LET BundleNumbers == {n \in NumberSamples : n.id \in {<<"n1">>, <<"n5">>, <<"n7">>}}
            IN
            {MakeAnswer(sh, ns) : sh \in Shapes, ns \in SeqsUpTo(BundleNumbers, MaxNumbers)}
    IN
    LET \* dicts handed to validate as evidence (dict[str, Any]); OutputsBundle(out) is
        \* {"tool_outputs": {"ledger.category_summary": out}} and CitationsOut(cs) is
        \* the tool output {"citations": cs}
        Bundles ==
            LET GroceriesPayload ==
                    DictV(<<[k |-> <<"result">>,
                             v |-> DictV(<<[k |-> <<"groceries">>, v |-> NumV(41255)]>>)]>>)
                OutputsBundle(out) ==
                    <<[k |-> <<"tool_outputs">>,
                       v |-> DictV(<<[k |-> <<"ledger.category_summary">>, v |-> out]>>)]>>
                CitationsOut(cs) == DictV(<<[k |-> <<"citations">>, v |-> cs]>>)
                CitationEntry(cid) == DictV(<<[k |-> <<"citation_id">>, v |-> cid]>>)
            IN {
                \* {}
                <<>>,
                \* {"citations": {"c1": {"result": {...}}}, "tool_outputs": {}}
                <<[k |-> <<"citations">>, v |-> DictV(<<[k |-> <<"c", "1">>, v |-> GroceriesPayload]>>)],
                  [k |-> <<"tool_outputs">>, v |-> DictV(<<>>)]>>,
                \* {"citations": {"c1": "text"}}
                <<[k |-> <<"citations">>, v |-> DictV(<<[k |-> <<"c", "1">>, v |-> StrV]>>)]>>,
                \* {"c1": {"result": {...}}, "note": "text", "context": {}}
                <<[k |-> <<"c", "1">>, v |-> GroceriesPayload], [k |-> <<"note">>, v |-> StrV],
                  [k |-> <<"context">>, v |-> DictV(<<>>)]>>,
                \* {"citations": None, "tool_outputs": []}
                <<[k |-> <<"citations">>, v |-> NoneV], [k |-> <<"tool_outputs">>, v |-> ListV(<<>>)]>>,
                \* tool outputs that list their citations: [{"citation_id": "c1"}, {"citation_id": ""}]
                OutputsBundle(CitationsOut(ListV(<<CitationEntry(TextV(<<"c", "1">>)),
                                                   CitationEntry(TextV(<<>>))>>))),
                \* a tool output that is text
                OutputsBundle(StrV),
                \* a tool output whose citations are ids, not dicts: ["c1"]
                OutputsBundle(CitationsOut(ListV(<<TextV(<<"c", "1">>)>>))),
                \* a tool output whose citations is a count: 3
                OutputsBundle(CitationsOut(NumV(300))),
                \* a tool output whose citation id is a list: [{"citation_id": ["c1"]}]
                OutputsBundle(CitationsOut(ListV(<<CitationEntry(ListV(<<TextV(<<"c", "1">>)>>))>>))) }
    IN
    LET Bundle(d) == <<[bundle |-> d]>>
    IN
    /\ registry = <<>>
    /\ today = RunDate
    /\ found = NoLookup
    /\ ops = <<>>
    /\ llmCalls = <<>>
    /\ runs = <<>>
    /\ request \in {r \in UserRequests : r.message = CHOOSE m \in Messages : TRUE}
    /\ pc = "validate"
    /\ plannerLlm = NotAsked
    /\ plannerAsked = FALSE
    /\ plan = NoPlan
    /\ context = NoContext
    /\ idx = 0
    /\ responses = <<>>
    /\ produced = <<>>
    /\ evidence \in {Bundle(b) : b \in Bundles} \cup SeqsUpTo(SampleResponses, 1)
    /\ composerLlm = NoReplyAnswer
    /\ answer \in BundleAnswers
    /\ issues = <<>>
    /\ fault = NoFault
    /\ log = <<>>

NextBundle == Validate \/ Revalidate

SpecBundle == InitBundle /\ [][NextBundle]_vars

\* C13: validate returns a list of issues and raises nothing, for every
\* answer and for evidence of either kind, a list of tool responses or a
\* dict of any shape.
C13_ValidateNeverRaises ==
    /\ pc # "fault"
    /\ fault = NoFault

\* what holds of C13: validate raises nothing on a list of tool responses
ValidateReturnsOnLists == IsBundle(evidence) \/ pc # "fault"

RunEnded == pc \in {"done", "fault"}

\* the executor returned, and some responses report failure and others success
MixedOutcome ==
    /\ Len(log) >= 3
    /\ \E i \in 1..Len(evidence) : ~evidence[i].ok
    /\ \E i \in 1..Len(evidence) : evidence[i].ok

\* the evidence the executor would have returned had each failed call
\* succeeded, with whichever result
HadSucceeded ==
    {e \in [1..Len(evidence) ->
              {[request_id |-> r.request_id, tool |-> r.tool, ok |-> TRUE, result |-> p,
                errors |-> <<>>, context |-> r.context]
                 : r \in Range(evidence), p \in Payloads} \cup Range(evidence)] :
        \A i \in 1..Len(evidence) :
           /\ e[i].request_id = evidence[i].request_id
           /\ e[i].tool = evidence[i].tool
           /\ evidence[i].ok => e[i] = evidence[i]
           /\ ~evidence[i].ok => e[i].ok}

ErrorsOf(iss) == {iss[i] : i \in {j \in 1..Len(iss) : iss[j].severity = "error"}}

\* every error of the run is an error of the run in which the failed calls
\* succeeded and the completion service returned the same texts
NoErrorFromFailureAlone ==
    \A e \in HadSucceeded :
       ~compose_raises(e, composerLlm) =>
          ErrorsOf(issues) \subseteq ErrorsOf(validate(compose(request, plan, e, composerLlm), e))

\* C15: a run whose plan has several calls, some failing and the others
\* succeeding, returns an answer, and its issues hold no error that would be
\* absent had the failed calls succeeded.
C15_MixedRunReturnsAndFailureAloneNoError ==
    (RunEnded /\ MixedOutcome) =>
       /\ pc = "done"
       /\ answer # NoAnswer
       /\ NoErrorFromFailureAlone

\* what holds of C15: a returned run's errors do not come from a failed call
ReturnedRunNoErrorFromFailureAlone ==
    (pc = "done" /\ MixedOutcome) => answer # NoAnswer /\ NoErrorFromFailureAlone

\* a returned run whose first call failed and whose second succeeded, with
\* an answer taken from the model's text that has errors
MixedRunReturnedWithErrors ==
    /\ pc = "done" /\ MixedOutcome
    /\ ~evidence[1].ok
    /\ ~ComposerFellBack
    /\ ErrorsOf(issues) # {}

(***************************************************************************)
(* The tools a plan names.                                                 *)
(***************************************************************************)
Registered(name) == get_tool(registry, name).ok

\* C16: every call of the plan Planner.plan returns names a tool that is
\* registered, whether the plan was parsed from the model's text or is the
\* fallback plan; and in the run, whose registry does not change, no call
\* the executor makes finds its tool missing.
C16_PlannedToolsAreRegistered ==
    PlannerReturned =>
       /\ \A i \in 1..Len(plan.calls) : Registered(plan.calls[i].tool)
       /\ \A i \in 1..Len(produced) :
             /\ produced[i].call = plan.calls[i]
             /\ produced[i].exc.cls # <<"KeyError">>

\* a returned run whose planner got a plan of two calls, one of them naming
\* a tool the registry does not hold, and dropped that call
C16_Witness ==
    /\ pc = "done"
    /\ plannerAsked /\ plannerLlm.kind = "plan"
    /\ Len(plannerLlm.plan.calls) = 2 /\ Len(plan.calls) = 1
    /\ \E i \in 1..2 : ~Registered(plannerLlm.plan.calls[i].tool)
    /\ Len(produced) = 1 /\ Registered(produced[1].call.tool)

(***************************************************************************)
(* Runs in which the completion service is unavailable.                    *)
(***************************************************************************)
\* the completion service returned the empty string to the planner and to
\* the composer, and the registry holds a tool
LlmUnavailable ==
    /\ ComposerEntered
    /\ registry # <<>>
    /\ plannerLlm.kind = "empty"
    /\ composerLlm.kind = "empty"

\* C17: when the completion service returns the empty string to the planner
\* and to the composer and a tool is registered, the run returns the
\* fallback answer and no issue, neither error nor warning, whether the
\* planned call succeeded or failed and whatever result it returned.
C17_UnavailableLlmFallbackNoIssues ==
    (RunEnded /\ LlmUnavailable) =>
       /\ pc = "done"
       /\ answer = _fallback_answer(request, plan, evidence)
       /\ issues = <<>>

HasDot(key) == \E i \in 1..Len(key) : key[i] = "."

\* what holds of C17: such a run that returns, returns the fallback answer
\* and no error; it returns a warning for each number of the first result
\* whose key holds a dot, and no other issue
UnavailableLlmReturnedRun ==
    (pc = "done" /\ LlmUnavailable) =>
       /\ answer = _fallback_answer(request, plan, evidence)
       /\ \A i \in 1..Len(issues) :
             /\ issues[i].code = "EVIDENCE_PATH_UNRESOLVED"
             /\ issues[i].severity = "warn"
       /\ Len(issues) = Cardinality({j \in 1..Len(evidence[1].result) :
                                        /\ IsNumeric(evidence[1].result[j].v)
                                        /\ HasDot(evidence[1].result[j].k)})

\* such a run returned a warning
UnavailableLlmRunWarned == pc = "done" /\ LlmUnavailable /\ issues # <<>>

(***************************************************************************)
(* ToolRegistry on its own (src/src/tools/registry.py): any sequence of    *)
(* register, clear, get_tool and get on a new registry.                    *)
(***************************************************************************)

\* ToolRegistry(): self._tools = {}
InitRegistry ==
    /\ registry = <<>>
    /\ today = RunDate
    /\ found = NoLookup
    /\ ops = <<>>
    /\ llmCalls = <<>>
    /\ runs = <<>>
    /\ request \in {r \in UserRequests : r.message = CHOOSE m \in Messages : TRUE}
    /\ pc = "registry"
    /\ plannerLlm = NotAsked
    /\ plannerAsked = FALSE
    /\ plan = NoPlan
    /\ context = NoContext
    /\ idx = 0
    /\ responses = <<>>
    /\ produced = <<>>
    /\ evidence = <<>>
    /\ composerLlm = NoReplyAnswer
    /\ answer = NoAnswer
    /\ issues = <<>>
    /\ fault = NoFault
    /\ log = <<>>

Register ==
    LET \* tools handed to register: either object under either name
        Tools ==
            LET ToolObjects == {StartupTool(n) : n \in ToolNames}
            IN
            {[obj |-> o, name |-> n] : o \in ToolObjects, n \in ToolNames}
    IN
    /\ pc = "registry"
    /\ Len(ops) < MaxOps
    /\ \E tool \in Tools :
          /\ registry' = register(registry, tool)
          /\ ops' = Append(ops, [op |-> "register", tool |-> tool])
    /\ UNCHANGED <<today, found, llmCalls, runs, request, pc, plannerLlm, plannerAsked, plan, context,
                   idx, responses, produced, evidence, composerLlm, answer, issues, fault, log>>

Clear ==
    /\ pc = "registry"
    /\ Len(ops) < MaxOps
    /\ registry' = clear(registry)
    /\ ops' = Append(ops, [op |-> "clear", tool |-> [obj |-> "", name |-> ""]])
    /\ UNCHANGED <<today, found, llmCalls, runs, request, pc, plannerLlm, plannerAsked, plan, context,
                   idx, responses, produced, evidence, composerLlm, answer, issues, fault, log>>

\* what a lookup leaves in found: the call, the number of operations
\* before it, and what it returned or raised
Lookedup(op, name, got) ==
    [op |-> op, name |-> name, at |-> Len(ops), ok |-> got.ok, tool |-> got.tool,
     exc |-> got.exc]

GetTool ==
    /\ pc = "registry"
    /\ \E name \in PlanToolNames : found' = Lookedup("get_tool", name, get_tool(registry, name))
    /\ UNCHANGED <<registry, today, ops, llmCalls, runs, request, pc, plannerLlm, plannerAsked, plan,
                   context, idx, responses, produced, evidence, composerLlm, answer, issues,
                   fault, log>>

GetAlias ==
    /\ pc = "registry"
    /\ \E name \in PlanToolNames : found' = Lookedup("get", name, get(registry, name))
    /\ UNCHANGED <<registry, today, ops, llmCalls, runs, request, pc, plannerLlm, plannerAsked, plan,
                   context, idx, responses, produced, evidence, composerLlm, answer, issues,
                   fault, log>>

NextRegistry == Register \/ Clear \/ GetTool \/ GetAlias

SpecRegistry == InitRegistry /\ [][NextRegistry]_vars

\* the tool most recently registered under the name among the operations h,
\* since the last clear
RECURSIVE LastRegistered(_, _)
LastRegistered(h, name) ==
    IF h = <<>> THEN [has |-> FALSE, obj |-> ""]
    ELSE LET last == h[Len(h)] IN
         IF last.op = "clear" THEN [has |-> FALSE, obj |-> ""]
         ELSE IF last.tool.name = name THEN [has |-> TRUE, obj |-> last.tool.obj]
         ELSE LastRegistered(SubSeq(h, 1, Len(h) - 1), name)

\* the lookup returns what the operations h call for
Agrees(got, h, name) ==
    LET last == LastRegistered(h, name) IN
    /\ last.has => got.ok /\ got.tool = last.obj
    /\ ~last.has => ~got.ok /\ got.exc.cls = <<"KeyError">>

\* C18: after any sequence of register and clear, get_tool(name) and get(name)
\* return the very tool most recently registered under the name since the
\* last clear, and raise KeyError when there is none; a tool registered
\* under two names is returned for both.
C18_LastRegistrationWins ==
    /\ \A name \in PlanToolNames :
          /\ Agrees(get_tool(registry, name), ops, name)
          /\ Agrees(get(registry, name), ops, name)
    /\ found.op # "" => Agrees(found, SubSeq(ops, 1, found.at), found.name)

\* one tool was registered under a name that held another, then under a
\* second name, and a lookup of the first name returned it
C18_Witness ==
    /\ Len(ops) = 3
    /\ \A i \in 1..3 : ops[i].op = "register"
    /\ ops[1].tool.name = ops[2].tool.name /\ ops[1].tool.obj # ops[2].tool.obj
    /\ ops[3].tool.name # ops[2].tool.name /\ ops[3].tool.obj = ops[2].tool.obj
    /\ found.op = "get" /\ found.at = 3 /\ found.name = ops[1].tool.name
    /\ found.ok /\ found.tool = ops[2].tool.obj
    /\ get_tool(registry, ops[3].tool.name).tool = found.tool

(***************************************************************************)
(* LLMClient.complete (src/src/infrastructure/llm/llm_client.py) on its    *)
(* own, against a completion service that behaves in any way.              *)
(***************************************************************************)

\* the classes an exception of the class is an instance of
Bases(cls) ==
    CASE cls = "HTTPError" -> {"HTTPError", "URLError", "OSError"}
      [] cls = "URLError" -> {"URLError", "OSError"}
      [] cls \in {"socket.timeout", "TimeoutError"} -> {"socket.timeout", "TimeoutError", "OSError"}
      [] cls = "ConnectionResetError" -> {"ConnectionResetError", "ConnectionError", "OSError"}
      [] cls = "JSONDecodeError" -> {"JSONDecodeError", "ValueError"}
      [] cls = "UnicodeDecodeError" -> {"UnicodeDecodeError", "UnicodeError", "ValueError"}
      [] OTHER -> {cls}

\* except (socket.timeout, urllib.error.URLError, TimeoutError, json.JSONDecodeError)
Caught(cls) ==
    Bases(cls) \cap {"socket.timeout", "URLError", "TimeoutError", "JSONDecodeError"} # {}

\* the exception raised inside the try block, "" if none
TryRaises(http) ==
    CASE http.kind = "json" -> ""
      [] http.kind = "undecodable" -> "UnicodeDecodeError"
      [] http.kind = "notjson" -> "JSONDecodeError"
      [] OTHER -> http.kind

\* complete(prompt): [raised, text], the class of the exception that leaves
\* it ("" if none) and the text it returns
complete(http) ==
    IF TryRaises(http) # ""
    THEN IF Caught(TryRaises(http)) THEN [raised |-> "", text |-> <<>>]
         ELSE [raised |-> TryRaises(http), text |-> <<>>]
    ELSE IF http.body.t # "dict" THEN [raised |-> "AttributeError", text |-> <<>>]
    ELSE LET response_text == IF HasKey(http.body.d, <<"response">>)
                              THEN Lookup(http.body.d, <<"response">>)
                              ELSE TextV(<<>>)
         IN [raised |-> "",
             text |-> IF response_text.t = "str" THEN Strip(response_text.s) ELSE <<>>]

InitLlm ==
    /\ registry = <<>>
    /\ today = RunDate
    /\ found = NoLookup
    /\ ops = <<>>
    /\ llmCalls = <<>>
    /\ runs = <<>>
    /\ request \in {r \in UserRequests : r.message = CHOOSE m \in Messages : TRUE}
    /\ pc = "llm"
    /\ plannerLlm = NotAsked
    /\ plannerAsked = FALSE
    /\ plan = NoPlan
    /\ context = NoContext
    /\ idx = 0
    /\ responses = <<>>
    /\ produced = <<>>
    /\ evidence = <<>>
    /\ composerLlm = NoReplyAnswer
    /\ answer = NoAnswer
    /\ issues = <<>>
    /\ fault = NoFault
    /\ log = <<>>

\* one call of complete, by the planner or by the composer
Complete ==
    LET \* What the completion service does on one call, [kind, body]:
        \*   an exception class   urlopen or resp.read() raises it
        \*   "undecodable"        the body is not UTF-8
        \*   "notjson"            the body is text that is not JSON
        \*   "json"               the body is JSON, parsed as .body
        HttpOutcomes ==
            {[kind |-> k, body |-> NoneV]
               : k \in {"URLError", "HTTPError", "socket.timeout", "TimeoutError",
                        "ConnectionResetError", "undecodable", "notjson"}}
            \cup
            {[kind |-> "json", body |-> b]
               : b \in {ListV(<<>>), TextV(<<"ok">>), NumV(100), NoneV, BoolV, DictV(<<>>),
                        DictV(<<[k |-> <<"error">>, v |-> TextV(<<"model", " ", "not", " ", "found">>)]>>)}
                       \cup {DictV(<<[k |-> <<"response">>, v |-> r]>>)
                               : r \in {TextV(<<>>), TextV(<<" ">>), TextV(<<"{", "}">>),
                                        TextV(<<" ", "{", "}", " ">>), NumV(4200), NoneV, BoolV,
                                        ListV(<<TextV(<<"{", "}">>)>>), DictV(<<>>)}}}
    IN
    /\ pc = "llm"
    /\ Len(llmCalls) < MaxCompletions
    /\ \E http \in HttpOutcomes :
          LET r == complete(http) IN
          /\ llmCalls' = Append(llmCalls, [http |-> http, raised |-> r.raised, returned |-> r.text])
          /\ IF r.raised # ""
             THEN fault' = [cls |-> <<r.raised>>, text |-> <<>>] /\ pc' = "fault"
             ELSE UNCHANGED <<fault, pc>>
    /\ UNCHANGED <<registry, today, found, ops, runs, request, plannerLlm, plannerAsked, plan, context,
                   idx, responses, produced, evidence, composerLlm, answer, issues, log>>

NextLlm == Complete

SpecLlm == InitLlm /\ [][NextLlm]_vars

\* the service gave no completion: a transport, timeout or parse failure, a
\* JSON body that is not an object, or a response field that is not text
ServiceFailed(http) ==
    \/ http.kind # "json"
    \/ http.body.t # "dict"
    \/ /\ HasKey(http.body.d, <<"response">>)
       /\ Lookup(http.body.d, <<"response">>).t # "str"

\* C19: complete returns the empty string and raises nothing on every
\* failure of the completion service: connection error, timeout, HTTP error
\* status, a body that cannot be decoded or is not JSON, a JSON body that is
\* not an object, a response field that is not text.
C19_CompleteFailsSoft ==
    /\ pc # "fault"
    /\ \A i \in 1..Len(llmCalls) :
          ServiceFailed(llmCalls[i].http) =>
             llmCalls[i].raised = "" /\ llmCalls[i].returned = <<>>

\* what holds of C19: complete returns the empty string on URLError,
\* HTTPError, a timeout, a body that is not JSON and a response field that
\* is not text, and returns the stripped response field of every other
\* JSON object
CompleteFailsSoftWhereCaught ==
    \A i \in 1..Len(llmCalls) :
       LET c == llmCalls[i] IN
       /\ c.http.kind \in {"URLError", "HTTPError", "socket.timeout", "TimeoutError", "notjson"}
             => c.raised = "" /\ c.returned = <<>>
       /\ (c.http.kind = "json" /\ c.http.body.t = "dict")
             => /\ c.raised = ""
                /\ ServiceFailed(c.http) => c.returned = <<>>
       /\ c.raised # "" =>
             \/ c.http.kind \in {"undecodable", "ConnectionResetError"}
             \/ c.http.kind = "json" /\ c.http.body.t # "dict"

\* complete returned a completion with its blanks stripped
CompleteReturnedText ==
    \E i \in 1..Len(llmCalls) : llmCalls[i].returned = <<"{", "}">> /\ Len(llmCalls[i].http.body.d[1].v.s) = 4

(***************************************************************************)
(* Concurrent invocations of LedgerMindEngine.run on one engine            *)
(* (src/src/interface/api.py: one module-level engine, analyze run on a    *)
(* worker thread per request).  Each invocation has a frame: the locals of *)
(* run and of the calls it makes.  The engine and its collaborators hold   *)
(* references set at construction and nothing else; the registry is        *)
(* shared and read.                                                        *)
(***************************************************************************)
RunIds == {1, 2}

\* the engine's variables of the other specifications, which no concurrent
\* invocation touches
flat == <<found, ops, llmCalls, request, pc, plannerLlm, plannerAsked, plan, context, idx,
          responses, produced, evidence, composerLlm, answer, issues, fault, log>>

\* the frame of an invocation that has not begun; .outcomes is what the
\* tools did at its calls, .overlapped whether it took a step while
\* another invocation was under way
NewFrame(user_request) ==
    [request |-> user_request, pc |-> "planner", plannerLlm |-> NotAsked, plan |-> NoPlan,
     context |-> NoContext, idx |-> 0, responses |-> <<>>, outcomes |-> <<>>,
     evidence |-> <<>>, composerLlm |-> NoReplyAnswer, answer |-> NoAnswer,
     issues |-> <<>>, fault |-> NoFault, overlapped |-> FALSE]

InitConcurrent ==
    /\ registry = CHOOSE r \in Registries : Len(r) = 2 /\ r[1].k = PREFERRED
    /\ today = RunDate
    /\ found = NoLookup
    /\ ops = <<>>
    /\ llmCalls = <<>>
    /\ runs \in {fs \in [RunIds -> {NewFrame(q) : q \in UserRequests}] :
                   fs[1].request # fs[2].request}
    /\ request \in {r \in UserRequests : r.message = CHOOSE m \in Messages : TRUE}
    /\ pc = "serving"
    /\ plannerLlm = NotAsked
    /\ plannerAsked = FALSE
    /\ plan = NoPlan
    /\ context = NoContext
    /\ idx = 0
    /\ responses = <<>>
    /\ produced = <<>>
    /\ evidence = <<>>
    /\ composerLlm = NoReplyAnswer
    /\ answer = NoAnswer
    /\ issues = <<>>
    /\ fault = NoFault
    /\ log = <<>>

\* (variant: one list of responses on the executor, to which every
\* invocation appends)
responses_shared(r) == runs[1].responses \o runs[2].responses

\* responses: list[ToolResponse] = [], a local of run_calls
responses_local(r) == runs[r].responses

UnderWay(f) == f.pc \notin {"planner", "done", "fault"}

\* invocation r moves to frame g
Moves(r, g) ==
    /\ runs' = [runs EXCEPT ![r] =
                  [g EXCEPT !.overlapped =
                      @ \/ \E q \in RunIds \ {r} : UnderWay(runs[q])]]
    /\ UNCHANGED <<registry, today>>
    /\ UNCHANGED flat

PlannerOf ==
    LET \* what the completion service and the tools do in these runs: a part of
        \* what they do in a single run
        ConcPlannerReplies ==
            {rp \in PlannerReplies :
                \/ rp.kind = "empty"
                \/ /\ rp.kind = "plan" /\ Len(rp.plan.calls) = 2
                   /\ \A i \in 1..2 : rp.plan.calls[i].tool = PREFERRED}
    IN
    \E r \in RunIds :
       LET f == runs[r] IN
       /\ f.pc = "planner"
       /\ \E reply \in ConcPlannerReplies :
             Moves(r, [f EXCEPT !.plannerLlm = reply,
                                !.plan = plan_service(f.request, registry, reply),
                                !.pc = run_next("planner")])

RunCallsBeginOf ==
    \E r \in RunIds :
       LET f == runs[r] IN
       /\ f.pc = "executor"
       /\ Moves(r, [f EXCEPT !.context = ToolContext(f.request), !.responses = <<>>,
                             !.idx = 1, !.pc = "calls"])

RunCallOf ==
    LET ConcOutcomes(req) ==
            {o \in ToolOutcomes(req) :
                IF o.raised THEN o.exc.text = <<>>
                ELSE o.response.ok /\ Len(o.response.result) \in {1, 2}}
    IN
    \E r \in RunIds :
       LET f == runs[r] IN
       /\ f.pc = "calls"
       /\ f.idx <= Len(f.plan.calls)
       /\ LET req == ToolRequest(f.request, f.plan.calls[f.idx], f.context) IN
          \E outcome \in ConcOutcomes(req) :
             LET res == CallResult(registry, req, outcome, f.context) IN
             Moves(r, [f EXCEPT !.responses = Record(responses_local(r), res.response),
                                !.outcomes = Append(@, outcome),
                                !.idx = @ + 1])

RunCallsReturnOf ==
    \E r \in RunIds :
       LET f == runs[r] IN
       /\ f.pc = "calls"
       /\ f.idx > Len(f.plan.calls)
       /\ Moves(r, [f EXCEPT !.evidence = f.responses, !.pc = run_next("executor")])

ComposerOf ==
    LET ConcComposerReplies ==
            {c \in ComposerReplies :
                c.kind = "empty" \/ (c.kind = "answer" /\ Len(c.answer.supporting_numbers) = 1)}
    IN
    \E r \in RunIds :
       LET f == runs[r] IN
       /\ f.pc = "composer"
       /\ \E reply \in ConcComposerReplies :
             IF compose_raises(f.evidence, reply)
             THEN Moves(r, [f EXCEPT !.composerLlm = reply, !.fault = OverflowError,
                                     !.pc = "fault"])
             ELSE Moves(r, [f EXCEPT !.composerLlm = reply,
                                     !.answer = compose(f.request, f.plan, f.evidence, reply),
                                     !.pc = run_next("composer")])

ValidatorOf ==
    \E r \in RunIds :
       LET f == runs[r] IN
       /\ f.pc = "validator"
       /\ Moves(r, [f EXCEPT !.issues = validate(f.answer, f.evidence),
                             !.pc = run_next("validator")])

NextConcurrent ==
    PlannerOf \/ RunCallsBeginOf \/ RunCallOf \/ RunCallsReturnOf \/ ComposerOf \/ ValidatorOf

SpecConcurrent == InitConcurrent /\ [][NextConcurrent]_vars

\* run_calls of an invocation that runs alone, given what the tools do
RECURSIVE AloneEvidence(_, _, _, _, _)
AloneEvidence(p, user_request, outcomes, i, acc) ==
    IF i > Len(p.calls) THEN acc
    ELSE LET ctx == ToolContext(user_request)
             req == ToolRequest(user_request, p.calls[i], ctx)
         IN AloneEvidence(p, user_request, outcomes, i + 1,
                          Record(acc, CallResult(registry, req, outcomes[i], ctx).response))

\* what run returns, or that it raises, when the invocation of frame f runs
\* alone with the same request, the same completions and the same tool
\* outcomes
Alone(f) ==
    LET p == plan_service(f.request, registry, f.plannerLlm)
        e == AloneEvidence(p, f.request, f.outcomes, 1, <<>>)
    IN IF compose_raises(e, f.composerLlm)
       THEN [raises |-> TRUE, answer |-> NoAnswer, issues |-> <<>>]
       ELSE LET a == compose(f.request, p, e, f.composerLlm)
            IN [raises |-> FALSE, answer |-> a, issues |-> validate(a, e)]

SameAsAlone ==
    \A r \in RunIds :
       /\ runs[r].pc = "done" =>
             /\ ~Alone(runs[r]).raises
             /\ runs[r].answer = Alone(runs[r]).answer
             /\ runs[r].issues = Alone(runs[r]).issues
       /\ runs[r].pc = "fault" => Alone(runs[r]).raises

\* C20: however the stages and tool calls of two invocations of run on one
\* engine interleave, with a registry that does not change, each returns
\* the answer and issues it returns when run alone, and a step of one
\* invocation changes nothing of the other.
C20_ConcurrentRunsIndependent ==
    /\ []SameAsAlone
    /\ [][\A r \in RunIds :
             runs'[r] # runs[r] =>
                /\ \A q \in RunIds \ {r} : runs'[q] = runs[q]
                /\ runs'[r].request = runs[r].request
                /\ registry' = registry]_vars

\* two invocations with different requests returned, each having taken
\* steps while the other was under way, with different answers
C20_Witness ==
    /\ \A r \in RunIds : runs[r].pc = "done" /\ runs[r].overlapped
    /\ runs[1].request # runs[2].request
    /\ runs[1].answer # runs[2].answer
    /\ Len(runs[1].evidence) = 2 /\ Len(runs[2].evidence) = 1

(***************************************************************************)
(* Planner.plan on its own: every registry, every completion.              *)
(***************************************************************************)
InitPlanner ==
    LET \* dates date.today() can return: a first of the month, the last day
        \* of a leap February, the last day of a year, and two others
        Dates == {[year |-> 2026, month |-> 1, day |-> 1],
                  [year |-> 2024, month |-> 2, day |-> 29],
                  [year |-> 2026, month |-> 12, day |-> 31],
                  [year |-> 2025, month |-> 10, day |-> 9],
                  RunDate}
    IN
    /\ registry \in Registries
    /\ today \in Dates
    /\ found = NoLookup
    /\ ops = <<>>
    /\ llmCalls = <<>>
    /\ runs = <<>>
    /\ request \in UserRequests
    /\ pc = "planner"
    /\ plannerLlm = NotAsked
    /\ plannerAsked = FALSE
    /\ plan = NoPlan
    /\ context = NoContext
    /\ idx = 0
    /\ responses = <<>>
    /\ produced = <<>>
    /\ evidence = <<>>
    /\ composerLlm = NoReplyAnswer
    /\ answer = NoAnswer
    /\ issues = <<>>
    /\ fault = NoFault
    /\ log = <<>>

SpecPlanner == InitPlanner /\ [][Planner]_vars

\* the completion, stripped, is empty or does not parse as a plan
NoParsedPlan == plannerLlm.kind \in {"empty", "blank", "notjson", "badschema"}

\* the completion parses as a plan none of whose calls names a registered tool
NoRegisteredCall ==
    /\ plannerLlm.kind = "plan"
    /\ \A i \in 1..Len(plannerLlm.plan.calls) : ~Registered(plannerLlm.plan.calls[i].tool)

\* C21: with no tool registered the planner returns the empty plan, whose
\* objective is the request message and which has no call, without
\* consulting the completion service; with a tool registered it returns the
\* fallback plan exactly when the completion is empty or blank, does not
\* parse as a plan, or parses with no call naming a registered tool, and
\* the parsed plan in every other case.
C21_PlanIsEmptyFallbackOrParsed ==
    PlannerReturned =>
       /\ registry = <<>> =>
             /\ ~plannerAsked
             /\ plan.objective = request.message
             /\ plan.calls = <<>>
             /\ plan = _empty_plan(request, request.message)
       /\ registry # <<>> =>
             /\ plannerAsked
             /\ plan = _fallback_plan(list_specs(registry)) <=> (NoParsedPlan \/ NoRegisteredCall)
             /\ ~(NoParsedPlan \/ NoRegisteredCall) =>
                   /\ plan.objective = plannerLlm.plan.objective
                   /\ plan.schema_version = plannerLlm.plan.schema_version
                   /\ plan.calls # <<>>
                   /\ plan # _empty_plan(request, request.message)

\* the planner got a plan of two calls, neither naming a registered tool,
\* and returned the fallback plan
C21_Witness ==
    /\ PlannerReturned
    /\ registry # <<>>
    /\ NoRegisteredCall /\ Len(plannerLlm.plan.calls) = 2
    /\ plan = _fallback_plan(list_specs(registry))

\* the planner returned the plan parsed from the completion
ParsedPlanAccepted ==
    PlannerReturned /\ registry # <<>> /\ plannerLlm.kind = "plan" /\ ~NoRegisteredCall

\* the positions of the model's calls that name a registered tool
KeptCalls == {i \in 1..Len(plannerLlm.plan.calls) : Registered(plannerLlm.plan.calls[i].tool)}

\* the j-th of them
NthKept(j) == CHOOSE i \in KeptCalls : Cardinality({k \in KeptCalls : k <= i}) = j

\* C22: when the planner accepts a parsed plan, the calls of the plan it
\* returns are the model's calls that name a registered tool, each as the
\* model gave it, in the model's order, duplicates kept; the calls naming
\* other tools are dropped; objective, assumptions and output are the
\* model's.
C22_AcceptedPlanIsFilteredModelPlan ==
    ParsedPlanAccepted =>
       /\ Len(plan.calls) = Cardinality(KeptCalls)
       /\ \A j \in 1..Len(plan.calls) : plan.calls[j] = plannerLlm.plan.calls[NthKept(j)]
       /\ plan.objective = plannerLlm.plan.objective
       /\ plan.assumptions = plannerLlm.plan.assumptions
       /\ plan.output = plannerLlm.plan.output
       /\ plan.schema_version = plannerLlm.plan.schema_version

\* the model planned a call to a tool that is not registered and then one
\* to a tool that is, and the planner returned the second alone
C22_Witness ==
    /\ ParsedPlanAccepted
    /\ Len(plannerLlm.plan.calls) = 2
    /\ ~Registered(plannerLlm.plan.calls[1].tool)
    /\ plan.calls = <<plannerLlm.plan.calls[2]>>
    /\ plan.calls[1].id = <<"s", "2">>

\* the model planned two calls to one registered tool and the planner
\* returned both
DuplicateCallsKept ==
    /\ ParsedPlanAccepted
    /\ Len(plan.calls) = 2
    /\ plan.calls[1].tool = plan.calls[2].tool


\* the planner fell back with a tool registered
FellBack == PlannerReturned /\ registry # <<>> /\ (NoParsedPlan \/ NoRegisteredCall)

\* the number a string of decimal digits writes
RECURSIVE DigitsValue(_)
DigitsValue(s) ==
    IF s = <<>> THEN 0
    ELSE 10 * DigitsValue(SubSeq(s, 1, Len(s) - 1))
         + (CHOOSE k \in 0..9 : Digits[k + 1] = s[Len(s)])

\* the date an ISO text "YYYY-MM-DD" writes
DateOfIso(s) == [year |-> DigitsValue(SubSeq(s, 1, 4)),
                 month |-> DigitsValue(SubSeq(s, 6, 7)),
                 day |-> DigitsValue(SubSeq(s, 9, 10))]

\* s is an ISO date text: four, two and two digits, joined by hyphens
IsIsoDate(s) ==
    /\ Len(s) = 10
    /\ s[5] = "-" /\ s[8] = "-"
    /\ \A i \in {1, 2, 3, 4, 6, 7, 9, 10} : IsDigit(s[i])

\* C23: the fallback plan has exactly one call; its tool is the preferred
\* default when that name is registered and otherwise the first registered
\* tool in list_specs order; its arguments are the ISO dates of the first
\* day of the current month and of today, the first not after the second,
\* with transfer exclusion enabled.
C23_FallbackPlanIsOneMonthToDateCall ==
    FellBack =>
       /\ Len(plan.calls) = 1
       /\ plan.calls[1].tool = IF Registered(PREFERRED) THEN PREFERRED
                               ELSE list_specs(registry)[1]
       /\ LET start == plan.calls[1].args.date_range.start
              end == plan.calls[1].args.date_range.end
          IN /\ IsIsoDate(start) /\ IsIsoDate(end)
             /\ DateOfIso(end) = today
             /\ DateOfIso(start) = [year |-> today.year, month |-> today.month, day |-> 1]
             /\ DateOfIso(start).day <= DateOfIso(end).day
       /\ plan.calls[1].args.exclude_transfers = TRUE

\* the preferred tool is registered second, the completion was not JSON,
\* and the fallback plan calls the preferred tool from the first of a leap
\* February to its 29th
C23_Witness ==
    /\ FellBack
    /\ plannerLlm.kind = "notjson"
    /\ Len(registry) = 2 /\ list_specs(registry)[1] # PREFERRED
    /\ plan.calls[1].tool = PREFERRED
    /\ plan.calls[1].args.date_range.start = <<"2", "0", "2", "4", "-", "0", "2", "-", "0", "1">>
    /\ plan.calls[1].args.date_range.end = <<"2", "0", "2", "4", "-", "0", "2", "-", "2", "9">>

\* the preferred tool is not registered and the fallback plan calls the
\* first registered tool, on the first of a month: start and end coincide
FallbackCallsFirstTool ==
    /\ FellBack
    /\ ~Registered(PREFERRED)
    /\ plan.calls[1].tool = list_specs(registry)[1]
    /\ plan.calls[1].args.date_range.start = plan.calls[1].args.date_range.end


(***************************************************************************)
(* AnswerService.compose on its own: every completion, on evidence lists   *)
(* of up to MaxEvidence responses.                                         *)
(***************************************************************************)
InitComposer ==
    LET \* a result whose first field is a bool
        FlagPayload == <<[k |-> <<"flag">>, v |-> BoolV], [k |-> <<"total">>, v |-> NumV(900)]>>
        ComposerResponses ==
            SampleResponses
            \cup {[r EXCEPT !.result = FlagPayload] : r \in {x \in SampleResponses : x.ok}}
    IN
    /\ registry = <<>>
    /\ today = RunDate
    /\ found = NoLookup
    /\ ops = <<>>
    /\ llmCalls = <<>>
    /\ runs = <<>>
    /\ request \in UserRequests
    /\ pc = "composer"
    /\ plannerLlm = NotAsked
    /\ plannerAsked = FALSE
    /\ plan \in {_empty_plan(request, request.message), _fallback_plan(<<PREFERRED>>)}
    /\ context = NoContext
    /\ idx = 0
    /\ responses = <<>>
    /\ produced = <<>>
    /\ evidence \in SeqsUpTo(ComposerResponses, MaxEvidence)
    /\ composerLlm = NoReplyAnswer
    /\ answer = NoAnswer
    /\ issues = <<>>
    /\ fault = NoFault
    /\ log = <<>>

SpecComposer == InitComposer /\ [][Composer]_vars

\* compose has returned or raised
ComposerEnded == composerLlm # NoReplyAnswer

\* the completion, stripped, is non-empty and parses against the answer schema
ModelAnswerParses == composerLlm.kind = "answer"

\* compose returned the model's answer as parsed when the text parses, and
\* the fallback answer otherwise
AnswerIsModelsOrFallback ==
    IF ModelAnswerParses THEN answer = composerLlm.answer
    ELSE /\ composerLlm.kind \in {"empty", "blank", "notjson", "badschema"}
         /\ answer = _fallback_answer(request, plan, evidence)

\* C24 as stated: compose returns the model's answer exactly as parsed
\* whenever the text is non-empty and parses against the answer schema, the
\* fallback answer in every other case, never a mixture, and never raises.
C24_ComposeReturnsModelOrFallback ==
    ComposerEnded => (fault = NoFault /\ pc # "fault" /\ AnswerIsModelsOrFallback)

\* whenever compose returns, it returns the model's answer or the fallback
\* answer as stated; it raises only from the fallback, on an int of the
\* first result that float() cannot convert
ComposeReturnsModelOrFallbackUnlessOverflow ==
    ComposerEnded =>
       /\ pc # "fault" => (fault = NoFault /\ AnswerIsModelsOrFallback)
       /\ pc = "fault" => /\ fault = OverflowError
                          /\ ~ModelAnswerParses
                          /\ \E i \in 1..Len(evidence[1].result) :
                                evidence[1].result[i].v.t = "bigint"

\* the completion was not JSON, the first result holds an int beyond the
\* range of float, and compose raised OverflowError
ComposeRaised ==
    /\ ComposerEnded
    /\ composerLlm.kind = "notjson"
    /\ pc = "fault" /\ fault = OverflowError

\* the model's answer parsed and was returned although the first result
\* holds an int beyond the range of float
ModelAnswerReturnedVerbatim ==
    /\ ComposerEnded /\ ModelAnswerParses
    /\ evidence # <<>> /\ evidence[1].result[1].v.t = "bigint"
    /\ answer = composerLlm.answer /\ answer # _fallback_answer(request, plan, evidence)


\* compose returned the fallback answer
FallbackReturned == ComposerEnded /\ ~ModelAnswerParses /\ pc # "fault"

\* the result of the first evidence item, empty when there is none
FirstResult == IF evidence = <<>> THEN <<>> ELSE evidence[1].result

\* the supporting numbers are the fields of the first result at the
\* positions fields, one per field in field order, each of type evidence,
\* citing c1 at path result.<field>
NumbersAreFields(numbers, fields) ==
    LET Nth(j) == CHOOSE i \in fields : Cardinality({k \in fields : k <= i}) = j
    IN /\ Len(numbers) = Cardinality(fields)
       /\ \A j \in 1..Len(numbers) :
             /\ numbers[j].type = "evidence"
             /\ numbers[j].value = FirstResult[Nth(j)].v.n
             /\ numbers[j].evidence_ref.has
             /\ numbers[j].evidence_ref.citation_id = <<"c", "1">>
             /\ numbers[j].evidence_ref.path = <<"result", ".">> \o FirstResult[Nth(j)].k

\* C25 as stated: the supporting numbers of the fallback answer are exactly
\* the number-valued top-level fields of the first evidence item's result,
\* one per field in field order, each of type evidence with citation c1 and
\* path result.<field>; none when the evidence list is empty or the first
\* result has no number; later evidence items contribute none.
C25_FallbackNumbersAreNumericFields ==
    FallbackReturned =>
       NumbersAreFields(answer.supporting_numbers,
                        {i \in 1..Len(FirstResult) : FirstResult[i].v.t \in {"num", "bigint"}})

\* what holds instead: the fields taken are those whose value is an int or
\* a float by isinstance, which a bool is (True gives 1.0)
FallbackNumbersAreIntOrFloatInstances ==
    FallbackReturned =>
       /\ NumbersAreFields(answer.supporting_numbers,
                           {i \in 1..Len(FirstResult) : FirstResult[i].v.t \in {"num", "bool"}})
       /\ \A j \in 1..Len(answer.supporting_numbers) :
             \E i \in 1..Len(FirstResult) :
                answer.supporting_numbers[j].id = <<"n">> \o IntStr(i)

\* the first result is {'flag': True, 'total': 9.0} and the fallback answer
\* has two supporting numbers, the first for flag with value 1.0
BoolFieldBecameNumber ==
    /\ FallbackReturned
    /\ Len(FirstResult) = 2 /\ FirstResult[1].v.t = "bool"
    /\ Len(answer.supporting_numbers) = 2
    /\ answer.supporting_numbers[1].value = 100
    /\ answer.supporting_numbers[1].evidence_ref.path = <<"result", ".", "flag">>

\* the second evidence item has numbers, the first has none, and the
\* fallback answer has no supporting number
LaterItemsContributeNothing ==
    /\ FallbackReturned
    /\ Len(evidence) = 2 /\ evidence[1].result = <<>>
    /\ \E i \in 1..Len(evidence[2].result) : evidence[2].result[i].v.t = "num"
    /\ answer.supporting_numbers = <<>>


\* the check of validate an issue code belongs to, in the order of the checks
CheckOf(code) ==
    CASE code = "SCHEMA_VERSION" -> 1
      [] code = "MISSING_HEADLINE" -> 2
      [] code = "MISSING_RECOMMENDED_ACTION_TITLE" -> 3
      [] code = "OPTIONS_COUNT" -> 4
      [] code \in {"OPTION_MISSING_TITLE", "OPTION_MISSING_STEPS"} -> 5
      [] code \in {"EVIDENCE_MISSING_REF", "EVIDENCE_MISSING_CITATION_ID", "UNKNOWN_CITATION_ID",
                   "EVIDENCE_PATH_UNRESOLVED", "ASSUMPTION_MISSING_RATIONALE",
                   "UNKNOWN_NUMBER_TYPE"} -> 6
      [] code = "UNCITED_NUMBER_IN_TEXT" -> 7

\* the issues of one check among a list of issues, in their order
IssuesOfCheck(list, k) ==
    LET OfCheck(issue) == CheckOf(issue.code) = k IN SelectSeq(list, OfCheck)

\* the checks that reported something
ChecksFailed == {CheckOf(issues[i].code) : i \in 1..Len(issues)}

\* the answer with everything but its supporting numbers made good
OnlyNumbersKept ==
    [MakeAnswer([schema |-> EXPECTED_SCHEMA, headline |-> PlainHeadline,
                 action |-> RecommendedAction(<<"Cancel">>, <<>>, <<>>),
                 options |-> <<GoodOption("o1"), GoodOption("o2")>>], <<>>)
        EXCEPT !.supporting_numbers = answer.supporting_numbers]

\* the answer with its schema version and options made good and its
\* supporting numbers turned into assumptions of the same value and unit
OnlyTextKept ==
    [answer EXCEPT !.schema_version = EXPECTED_SCHEMA,
                   !.options = <<GoodOption("o1"), GoodOption("o2")>>,
                   !.supporting_numbers =
                       [j \in 1..Len(answer.supporting_numbers) |->
                           NumericEvidence(answer.supporting_numbers[j].id,
                                           answer.supporting_numbers[j].value,
                                           answer.supporting_numbers[j].unit,
                                           "assumption", NoRef, SomeText(<<"why">>))]]

\* C26: validate evaluates its checks independently: each check reports
\* what its own part of the answer calls for, whether or not another check
\* failed, and the issues are listed in the order of the checks.
C26_ChecksIndependentInOrder ==
    Validated =>
       /\ \A i, j \in 1..Len(issues) :
             i < j => CheckOf(issues[i].code) <= CheckOf(issues[j].code)
       /\ 1 \in ChecksFailed <=> answer.schema_version # EXPECTED_SCHEMA
       /\ 2 \in ChecksFailed <=> answer.summary.headline = <<>>
       /\ 3 \in ChecksFailed <=>
             (~answer.recommended_action.has \/ answer.recommended_action.title = <<>>)
       /\ 4 \in ChecksFailed <=> (Len(answer.options) < 2 \/ Len(answer.options) > 3)
       /\ Cardinality(IssuesOfCode("OPTION_MISSING_TITLE"))
             = Cardinality({o \in 1..Len(answer.options) : answer.options[o].title = <<>>})
       /\ Cardinality(IssuesOfCode("OPTION_MISSING_STEPS"))
             = Cardinality({o \in 1..Len(answer.options) : answer.options[o].steps = <<>>})
       /\ Len(IssuesOfCheck(issues, 1)) <= 1
       /\ Len(IssuesOfCheck(issues, 2)) <= 1
       /\ Len(IssuesOfCheck(issues, 3)) <= 1
       /\ Len(IssuesOfCheck(issues, 4)) <= 1
       /\ IssuesOfCheck(issues, 6) = IssuesOfCheck(validate(OnlyNumbersKept, evidence), 6)
       /\ IssuesOfCheck(issues, 7) = IssuesOfCheck(validate(OnlyTextKept, evidence), 7)

\* an answer with another schema version, no headline, no recommended
\* action, no option and a number that cites an unknown id: five issues,
\* one from each of the checks 1, 2, 3, 4 and 6
C26_Witness ==
    /\ Validated
    /\ ChecksFailed = {1, 2, 3, 4, 6}
    /\ Len(issues) = 5
    /\ issues[1].code = "SCHEMA_VERSION"
    /\ issues[5].code = "UNKNOWN_CITATION_ID"

\* a grounding error and an uncited number in the text are both reported
GroundingAndTextBothReported ==
    /\ Validated
    /\ {5, 6, 7} \subseteq ChecksFailed \/ {6, 7} \subseteq ChecksFailed
    /\ \E i \in 1..Len(issues) : issues[i].severity = "error" /\ CheckOf(issues[i].code) = 6


\* the tokens found in the scanned fields, each with the path of its field
TokenOccurrences ==
    UNION {{[token |-> TokensOf(ScannedFields[f].text)[k], path |-> ScannedFields[f].path] :
               k \in 1..Len(TokensOf(ScannedFields[f].text))} : f \in 1..Len(ScannedFields)}

\* the tokens validate reported as uncited, each with the path of its issue
ReportedOccurrences ==
    {[token |-> issues[i].about, path |-> issues[i].path] :
        i \in IssuesOfCode("UNCITED_NUMBER_IN_TEXT")}

\* one digit and nothing else
BareDigit(token) == Len(token) = 1 /\ token[1] \in {"0", "1", "2", "3", "4", "5", "6", "7", "8", "9"}

\* a currency sign and one digit
SignedDigit(token) == Len(token) = 2 /\ token[1] = "$" /\ BareDigit(<<token[2]>>)

\* C27 as stated: in every scanned field, a matched token is reported as
\* UNCITED_NUMBER_IN_TEXT, a warning, exactly when it is absent from the
\* canonical forms of the supporting numbers and is not one bare digit.
C27_OnlyBareDigitsExempt ==
    Validated =>
       /\ ReportedOccurrences =
             {o \in TokenOccurrences : o.token \notin CanonicalForms /\ ~BareDigit(o.token)}
       /\ UncitedAreWarnings

\* C27 as amended: the same, the exempt tokens being one digit with or
\* without a currency sign before it.
C27_OnlySingleDigitsExempt ==
    Validated =>
       /\ ReportedOccurrences =
             {o \in TokenOccurrences :
                 o.token \notin CanonicalForms /\ ~BareDigit(o.token) /\ ~SignedDigit(o.token)}
       /\ UncitedAreWarnings

\* no supporting number: in the risk line "Plan v2 costs $5 and 50/60 of
\* 1200.0" the token 1200.0 is reported and $5 is not; in the step "Save
\* $487 of 1,200 in 4 weeks" the token 4 is not; the 30-day step is scanned
C27_Witness ==
    /\ Validated
    /\ answer.supporting_numbers = <<>>
    /\ [token |-> <<"1", "2", "0", "0", ".", "0">>, path |-> FieldAt("risks_and_tradeoffs", 1)]
          \in ReportedOccurrences
    /\ [token |-> <<"$", "5">>, path |-> FieldAt("risks_and_tradeoffs", 1)]
          \in TokenOccurrences \ ReportedOccurrences
    /\ [token |-> <<"4">>, path |-> FieldAt("recommended_action.next_7_days", 1)]
          \in TokenOccurrences \ ReportedOccurrences
    /\ [token |-> <<"4", "8", "8">>, path |-> FieldAt("recommended_action.next_30_days", 1)]
          \in ReportedOccurrences


(***************************************************************************)
(* validate on answers that fail several of its checks at once.            *)
(***************************************************************************)
InitChecks ==
    LET \* a number citing an unknown id, an assumption without rationale whose
        \* value is not the headline's, a number citing c1 and one citing c2
        CheckNumbers == {n \in NumberSamples : n.id \in {<<"n1">>, <<"n2">>, <<"n5">>, <<"n9">>}}
    IN
    /\ registry = <<>>
    /\ today = RunDate
    /\ found = NoLookup
    /\ ops = <<>>
    /\ llmCalls = <<>>
    /\ runs = <<>>
    /\ request \in {r \in UserRequests : r.message = CHOOSE m \in Messages : TRUE}
    /\ pc = "validate"
    /\ plannerLlm = NotAsked
    /\ plannerAsked = FALSE
    /\ plan = NoPlan
    /\ context = NoContext
    /\ idx = 0
    /\ responses = <<>>
    /\ produced = <<>>
    /\ evidence \in SeqsUpTo(SampleResponses, MaxEvidence)
    /\ composerLlm = NoReplyAnswer
    /\ answer \in {MakeAnswer(sh, ns) : sh \in Shapes, ns \in SeqsUpTo(CheckNumbers, MaxNumbers)}
    /\ issues = <<>>
    /\ fault = NoFault
    /\ log = <<>>

\* a later call of validate on the same answer, against the evidence list
\* without its first response
ValidateShorter ==
    /\ pc = "validated"
    /\ evidence # <<>>
    /\ evidence' = Tail(evidence)
    /\ issues' = issues_new(issues) \o validate(answer, Tail(evidence))
    /\ pc' = "revalidated"
    /\ UNCHANGED <<registry, today, found, ops, llmCalls, runs, request, plannerLlm, plannerAsked, plan, context, idx, responses,
                   produced, composerLlm, answer, fault, log>>

SpecChecks == InitChecks /\ [][Validate \/ ValidateShorter]_vars


\* a call of validate has returned, the first or a later one
ValidateReturned == pc \in {"validated", "revalidated"}

\* the citations map of the bundle validate builds from the evidence list
CitationsMap == Get(_normalize_evidence(evidence), <<"citations">>).d

\* C28: after every call of validate on a list of n tool responses, the
\* known citation ids are c1 to cn of that list, ci is bound to the result
\* of its i-th response, whether the response failed or names the tool of
\* another one, and the issues on citation ids and paths are those that
\* this binding calls for.
C28_CitationsArePositional ==
    ValidateReturned =>
       /\ _collect_citation_ids(_normalize_evidence(evidence))
             = {<<"c">> \o IntStr(i) : i \in 1..Len(evidence)}
       /\ Len(CitationsMap) = Len(evidence)
       /\ \A i \in 1..Len(evidence) :
             \E e \in 1..Len(CitationsMap) :
                /\ CitationsMap[e].k = <<"c">> \o IntStr(i)
                /\ CitationsMap[e].v = DictV(<<[k |-> <<"result">>,
                                                v |-> DictV(evidence[i].result)]>>)
       /\ \A j \in EvidenceNumbers :
             LET ref == answer.supporting_numbers[j].evidence_ref IN
             (ref.has /\ ref.citation_id # <<>>) =>
                /\ ReportsUnknownCitation(j)
                      <=> ~\E i \in 1..Len(evidence) : ref.citation_id = <<"c">> \o IntStr(i)
                /\ Reports("EVIDENCE_PATH_UNRESOLVED", NumberAt(j) \o <<".evidence_ref.path">>)
                      <=> /\ \E i \in 1..Len(evidence) : ref.citation_id = <<"c">> \o IntStr(i)
                          /\ ref.path # <<>>
                          /\ ~Resolves(ref.citation_id, ref.path)

\* two responses of one tool, the second holding rows.count: the number
\* citing c2 at result.rows..count is not reported, so c2 is known and is
\* bound to the second result
C28_Witness ==
    /\ pc = "validated"
    /\ Len(evidence) = 2
    /\ evidence[1].tool = evidence[2].tool
    /\ evidence[1].result # evidence[2].result
    /\ Len(answer.supporting_numbers) = 1
    /\ answer.supporting_numbers[1].evidence_ref.citation_id = <<"c", "2">>
    /\ EvidenceIssuesOf(1) = {}

\* a failed response has its citation: the number citing c2 is not
\* reported as unknown when the second response failed
FailedResponseCited ==
    /\ pc = "validated"
    /\ Len(evidence) = 2 /\ ~evidence[2].ok
    /\ Len(answer.supporting_numbers) = 1
    /\ answer.supporting_numbers[1].evidence_ref.citation_id = <<"c", "2">>
    /\ ~ReportsUnknownCitation(1)
    /\ Reports("EVIDENCE_PATH_UNRESOLVED", NumberAt(1) \o <<".evidence_ref.path">>)

\* validate was called again with the list without its first response:
\* the number citing c2 is now reported as citing an unknown id
ShorterListForgetsC2 ==
    /\ pc = "revalidated"
    /\ Len(evidence) = 1
    /\ Len(answer.supporting_numbers) = 1
    /\ answer.supporting_numbers[1].evidence_ref.citation_id = <<"c", "2">>
    /\ ReportsUnknownCitation(1)


\* the iterations of run_calls so far are those of the first calls of the
\* plan, one per call, each with its response recorded, and the tool of
\* each was run once if its name is registered and not at all otherwise
OneRunPerCallSoFar ==
    /\ Len(produced) <= Len(plan.calls)
    /\ pc = "calls" => (Len(responses) = Len(produced) /\ idx = Len(produced) + 1)
    /\ \A i \in 1..Len(produced) :
          /\ produced[i].call = plan.calls[i]
          /\ produced[i].tool_runs = IF Registered(plan.calls[i].tool) THEN 1 ELSE 0
    /\ RunCallsReturned => Len(produced) = Len(plan.calls)

\* an iteration is that of the call after the last recorded one, begins
\* when every earlier response is recorded, records its own response, and
\* leaves the earlier iterations as they were
IterationsInPlanOrder ==
    produced' # produced =>
       /\ Len(responses) = Len(produced)
       /\ Len(produced') = Len(produced) + 1
       /\ produced'[Len(produced')].call = plan.calls[Len(produced) + 1]
       /\ responses' = Append(responses, produced'[Len(produced')].response)
       /\ \A i \in 1..Len(produced) : produced'[i] = produced[i]

\* C29: within one run_calls the tool of each call of the plan is run at
\* most once, exactly once when its name is registered, one call after
\* another in plan order: the iteration of call i+1 begins only when the
\* response of call i is recorded, and a call that failed is not run again.
C29_EachCallRunOnceInOrder == []OneRunPerCallSoFar /\ [][IterationsInPlanOrder]_vars

\* two calls of one registered tool: the first run raised, the second
\* returned, and each was run once
C29_Witness ==
    /\ RunCallsReturned
    /\ Len(plan.calls) = 2
    /\ plan.calls[1].tool = plan.calls[2].tool
    /\ produced[1].raised /\ produced[1].tool_runs = 1 /\ ~evidence[1].ok
    /\ ~produced[2].raised /\ produced[2].tool_runs = 1 /\ evidence[2].ok

\* a call naming a tool that is not registered runs no tool
UnregisteredCallRunsNothing ==
    /\ RunCallsReturned
    /\ Len(plan.calls) = 2
    /\ produced[1].tool_runs = 0 /\ produced[1].exc.cls = <<"KeyError">>
    /\ produced[2].tool_runs = 1


\* every call so far got the ToolContext derived from the request
SameContextForEveryCall ==
    \A i \in 1..Len(produced) : produced[i].context = ToolContext(request)

\* a step of run_calls leaves the plan and the request as they are, a step
\* of compose the plan and the evidence, a step of validate the answer and
\* the evidence
StageLeavesEarlierOutputs ==
    /\ pc \in {"executor", "calls"} => (plan' = plan /\ request' = request)
    /\ pc = "calls" => context' = context
    /\ pc = "composer" => (plan' = plan /\ evidence' = evidence /\ request' = request)
    /\ pc = "validator" => (answer' = answer /\ evidence' = evidence /\ plan' = plan)

\* C30: no stage of engine.run changes the output of an earlier stage:
\* run_calls leaves the plan and the request unchanged and gives every call
\* the same ToolContext, derived from the request; compose leaves the plan
\* and the evidence unchanged; validate leaves the answer and the evidence
\* unchanged.
C30_StagesLeaveEarlierOutputs == []SameContextForEveryCall /\ [][StageLeavesEarlierOutputs]_vars

\* a finished run of two calls, one of which raised: both got the context
\* of the request, and the plan and evidence are those the composer was
\* given
C30_Witness ==
    /\ pc = "done"
    /\ Len(plan.calls) = 2
    /\ produced[1].raised /\ ~produced[2].raised
    /\ produced[1].context = produced[2].context
    /\ produced[2].context.timezone = request.context.timezone
    /\ log[3].plan = plan /\ log[3].evidence = evidence
    /\ log[4].answer = answer

=============================================================================
